---------------------------- MODULE Spec2Model ----------------------------
(***************************************************************************)
(* TradeMatrix: the query-understanding and response-synthesis pipeline.   *)
(*                                                                         *)
(* Three entry points are modelled:                                        *)
(*   - DynamicDataModel.process_query     (src/app.py)                     *)
(*   - process_market_query               (src/backend/services/           *)
(*                                          mcp_tools.py)                  *)
(*   - ask_llm                            (same file)                      *)
(*                                                                         *)
(* Text is a sequence of one-character strings, so that the regular        *)
(* expressions of the source are matched character by character.  Prices   *)
(* are integers in cents (the source rounds every price to 2 decimals).    *)
(* Dates are proleptic Gregorian ordinals (datetime.date.toordinal) when    *)
(* they are date objects and character sequences when they are strings.    *)
(***************************************************************************)
EXTENDS Integers, Sequences, FiniteSets, TLC

(***************************************************************************)
(* Characters                                                              *)
(***************************************************************************)
LowerSeq ==
  <<"a","b","c","d","e","f","g","h","i","j","k","l","m",
    "n","o","p","q","r","s","t","u","v","w","x","y","z">>

UpperSeq ==
  <<"A","B","C","D","E","F","G","H","I","J","K","L","M",
    "N","O","P","Q","R","S","T","U","V","W","X","Y","Z">>

DigitSeq == <<"0","1","2","3","4","5","6","7","8","9">>

LowerCh == {LowerSeq[k] : k \in DOMAIN LowerSeq}

UpperCh == {UpperSeq[k] : k \in DOMAIN UpperSeq}

Digits == {DigitSeq[k] : k \in DOMAIN DigitSeq}

Letters == LowerCh \cup UpperCh

\* \w of the regular expressions
WordCh == Letters \cup Digits \cup {"_"}

\* str.lower() on one character
LowerC(c) ==
  IF c \in UpperCh
    THEN LowerSeq[CHOOSE k \in DOMAIN UpperSeq : UpperSeq[k] = c]
    ELSE c

\* the other case of a letter, for re.IGNORECASE
UpperC(c) ==
  IF c \in LowerCh
    THEN UpperSeq[CHOOSE k \in DOMAIN LowerSeq : LowerSeq[k] = c]
    ELSE c

\* str.lower()
Lower(s) == [k \in DOMAIN s |-> LowerC(s[k])]

SetMax(S) == CHOOSE x \in S : \A y \in S : y <= x

SetMin(S) == CHOOSE x \in S : \A y \in S : x <= y

\* F of the value v: a local variable that is assigned once
With(v, F(_)) == F(v)

(***************************************************************************)
(* Regular expressions (Python's re), as syntax trees                      *)
(***************************************************************************)
Cls(S) == [op |-> "cls", set |-> S]

Cat(ps) == [op |-> "seq", parts |-> ps]

Alt(ps) == [op |-> "alt", parts |-> ps]

\* hi = -1 : no upper limit
Rep(r, lo, hi) == [op |-> "rep", sub |-> r, lo |-> lo, hi |-> hi]

Plus(r) == Rep(r, 1, -1)

Star(r) == Rep(r, 0, -1)

Opt(r) == Rep(r, 0, 1)

\* \b
WordB == [op |-> "wb"]

\* a literal string
Lit(t) == Cat([k \in DOMAIN t |-> Cls({t[k]})])

\* a literal string under re.IGNORECASE
LitI(t) == Cat([k \in DOMAIN t |-> Cls({LowerC(t[k]), UpperC(t[k])})])

IsWordAt(s, i) == i >= 1 /\ i <= Len(s) /\ s[i] \in WordCh

RECURSIVE Ends(_, _, _)
RECURSIVE EndsSeq(_, _, _, _)
RECURSIVE EndsRep(_, _, _, _, _)

\* the positions just after a match of r in s that starts at a position of I
Ends(r, s, I) ==
  IF I = {} THEN {}
  ELSE CASE r.op = "cls" ->
              {i + 1 : i \in {j \in I : j <= Len(s) /\ s[j] \in r.set}}
         [] r.op = "seq" -> EndsSeq(r.parts, 1, s, I)
         [] r.op = "alt" ->
              UNION {Ends(r.parts[k], s, I) : k \in DOMAIN r.parts}
         [] r.op = "rep" -> EndsRep(r.sub, r.lo, r.hi, s, I)
         [] r.op = "wb" ->
              {i \in I : IsWordAt(s, i - 1) # IsWordAt(s, i)}

EndsSeq(ps, k, s, I) ==
  IF k > Len(ps) THEN I ELSE EndsSeq(ps, k + 1, s, Ends(ps[k], s, I))

EndsRep(r, lo, hi, s, I) ==
  IF I = {} THEN {}
  ELSE IF lo > 0
    THEN EndsRep(r, lo - 1, IF hi = -1 THEN -1 ELSE hi - 1, s, Ends(r, s, I))
  ELSE IF hi = 0 THEN I
  ELSE I \cup EndsRep(r, 0, IF hi = -1 THEN -1 ELSE hi - 1, s,
                      Ends(r, s, I) \ I)

\* re.search(r, s) is not None
Found(r, s) == \E i \in 1..(Len(s) + 1) : Ends(r, s, {i}) # {}

\* start of the match of re.search(r, s): the leftmost one
MatchStart(r, s) ==
  SetMin({i \in 1..(Len(s) + 1) : Ends(r, s, {i}) # {}})

\* s[a..b-1]
Slice(s, a, b) == SubSeq(s, a, b - 1)

\* re.search(Cat(<<pre, g>>), s).group(1), for a pattern that ends with its
\* group; every quantifier of these patterns is greedy and unambiguous, so
\* the group is the longest one
Group1(pre, g, s) ==
  With(MatchStart(Cat(<<pre, g>>), s), LAMBDA i :
  With(SetMax({p \in Ends(pre, s, {i}) : Ends(g, s, {p}) # {}}), LAMBDA gs :
    Slice(s, gs, SetMax(Ends(g, s, {gs})))))

\* re.search(Cat(<<pre, g1, mid, g2>>), s).group(1) and .group(2)
Group12(pre, g1, mid, g2, s) ==
  With(MatchStart(Cat(<<pre, g1, mid, g2>>), s), LAMBDA i :
  With(SetMax({p \in Ends(pre, s, {i}) :
                Ends(Cat(<<g1, mid, g2>>), s, {p}) # {}}), LAMBDA g1s :
  With(SetMax({e \in Ends(g1, s, {g1s}) :
                Ends(Cat(<<mid, g2>>), s, {e}) # {}}), LAMBDA g1e :
  With(SetMax({p \in Ends(mid, s, {g1e}) : Ends(g2, s, {p}) # {}}),
       LAMBDA g2s :
    <<Slice(s, g1s, g1e), Slice(s, g2s, SetMax(Ends(g2, s, {g2s})))>>))))

(***************************************************************************)
(* Pattern tables (src/app.py:83-113)                                      *)
(***************************************************************************)
Sp1 == Plus(Cls({" "}))

D(n) == Rep(Cls(Digits), n, n)

Dr(lo, hi) == Rep(Cls(Digits), lo, hi)

\* a literal; ci = TRUE under re.IGNORECASE
L(t, ci) == IF ci THEN LitI(t) ELSE Lit(t)

\* [a-z]; under re.IGNORECASE it matches both cases
AzCls(ci) == Cls(IF ci THEN Letters ELSE LowerCh)

\* the month abbreviations of the patterns, January first
Months ==
  <<<<"J","a","n">>, <<"F","e","b">>, <<"M","a","r">>, <<"A","p","r">>,
    <<"M","a","y">>, <<"J","u","n">>, <<"J","u","l">>, <<"A","u","g">>,
    <<"S","e","p">>, <<"O","c","t">>, <<"N","o","v">>, <<"D","e","c">>>>

\* (?:Jan|Feb|Mar|Apr|May|Jun|Jul|Aug|Sep|Oct|Nov|Dec)
MonAbbr(ci) == Alt([k \in DOMAIN Months |-> L(Months[k], ci)])

\* \d{4}-\d{2}-\d{2}
IsoTok == Cat(<<D(4), Cls({"-"}), D(2), Cls({"-"}), D(2)>>)

\* \d{1,2}/\d{1,2}/\d{2,4}
SlashTok == Cat(<<Dr(1, 2), Cls({"/"}), Dr(1, 2), Cls({"/"}), Dr(2, 4)>>)

\* [a-z]*\.?\s+  between the month name and what follows it
MonTail(ci) == Cat(<<Star(AzCls(ci)), Opt(Cls({"."})), Sp1>>)

\* (?:Jan|...|Dec)[a-z]*\.?\s+\d{4}
MonYearTok(ci) == Cat(<<MonAbbr(ci), MonTail(ci), D(4)>>)

\* (?:Jan|...|Dec)[a-z]*\.?\s+\d{1,2}(?:st|nd|rd|th)?,?\s+\d{4}
MonDayYearTok ==
  Cat(<<MonAbbr(FALSE), MonTail(FALSE), Dr(1, 2),
        Opt(Alt(<<Lit(<<"s","t">>), Lit(<<"n","d">>),
                  Lit(<<"r","d">>), Lit(<<"t","h">>)>>)),
        Opt(Cls({","})), Sp1, D(4)>>)

\* the date alternatives of the date_range pattern
RangeDateTok(ci) == Alt(<<IsoTok, SlashTok, MonYearTok(ci)>>)

\* (?:from|between)\s+
RangePre(ci) ==
  Cat(<<Alt(<<L(<<"f","r","o","m">>, ci),
              L(<<"b","e","t","w","e","e","n">>, ci)>>), Sp1>>)

\* \s+(?:to|and|until|-)\s+
RangeMid(ci) ==
  Cat(<<Sp1, Alt(<<L(<<"t","o">>, ci), L(<<"a","n","d">>, ci),
                   L(<<"u","n","t","i","l">>, ci), Cls({"-"})>>), Sp1>>)

\* pric(?:e|es|ing)
PricTok ==
  Cat(<<Lit(<<"p","r","i","c">>),
        Alt(<<Lit(<<"e">>), Lit(<<"e","s">>), Lit(<<"i","n","g">>)>>)>>)

\* rat(?:e|es)
RatTok ==
  Cat(<<Lit(<<"r","a","t">>), Alt(<<Lit(<<"e">>), Lit(<<"e","s">>)>>)>>)

\* the intents in dict order, with their patterns in list order
INTENT_PATTERNS ==
  <<[intent |-> "oil_price",
     patterns |->
       <<Cat(<<Lit(<<"o","i","l">>), Sp1, PricTok>>),
         Cat(<<Lit(<<"c","r","u","d","e">>), Sp1, Lit(<<"o","i","l">>)>>),
         Lit(<<"b","r","e","n","t">>),
         Cat(<<Lit(<<"p","e","t","r","o","l","e","u","m">>), Sp1, PricTok>>),
         Cat(<<Lit(<<"f","u","e","l">>), Sp1, PricTok>>),
         Cat(<<Lit(<<"g","a","s">>), Sp1, PricTok>>),
         Cat(<<Lit(<<"p","e","t","r","o","l">>), Sp1, PricTok>>)>>],
    [intent |-> "fx_rates",
     patterns |->
       <<Cat(<<Alt(<<Lit(<<"f","x">>),
                     Lit(<<"f","o","r","e","i","g","n"," ",
                           "e","x","c","h","a","n","g","e">>),
                     Lit(<<"c","u","r","r","e","n","c","y">>)>>),
               Sp1, RatTok>>),
         Cat(<<Lit(<<"e","x","c","h","a","n","g","e">>), Sp1, RatTok>>),
         Cat(<<Lit(<<"c","u","r","r","e","n","c","y">>), Sp1,
               Lit(<<"c","o","n","v","e","r","s","i","o","n">>)>>)>>],
    [intent |-> "weather",
     patterns |->
       <<Cat(<<Lit(<<"w","e","a","t","h","e","r">>),
               Opt(Cat(<<Sp1, Lit(<<"f","o","r","e","c","a","s","t">>)>>))>>),
         Lit(<<"t","e","m","p","e","r","a","t","u","r","e">>),
         Alt(<<Lit(<<"r","a","i","n">>), Lit(<<"s","n","o","w">>),
               Lit(<<"p","r","e","c","i","p","i","t","a","t","i","o","n">>)>>),
         Lit(<<"f","o","r","e","c","a","s","t">>)>>]>>

\* PARAMETER_PATTERNS; each entry is split at its capture groups
PARAMETER_PATTERNS ==
  [date_range  |-> [pre |-> RangePre(FALSE), g1 |-> RangeDateTok(FALSE),
                    mid |-> RangeMid(FALSE), g2 |-> RangeDateTok(FALSE)],
   single_date |-> [pre |-> Cat(<<Alt(<<Lit(<<"o","n">>), Lit(<<"a","t">>),
                                        Lit(<<"f","o","r">>)>>), Sp1>>),
                    g1  |-> Alt(<<IsoTok, SlashTok, MonDayYearTok>>)],
   days_ago    |-> [pre |-> Cat(<<>>), g1 |-> Plus(Cls(Digits)),
                    mid |-> Cat(<<Sp1, Lit(<<"d","a","y">>),
                                  Opt(Cls({"s"})), Sp1>>),
                    g2  |-> Lit(<<"a","g","o">>)],
   timeframe   |-> [pre |-> Cat(<<Alt(<<Lit(<<"l","a","s","t">>),
                                        Lit(<<"p","a","s","t">>)>>), Sp1>>),
                    g1  |-> Plus(Cls(Digits)),
                    mid |-> Sp1,
                    g2  |-> Alt(<<Cat(<<Lit(<<"d","a","y">>), Opt(Cls({"s"}))>>),
                                  Cat(<<Lit(<<"w","e","e","k">>), Opt(Cls({"s"}))>>),
                                  Cat(<<Lit(<<"m","o","n","t","h">>), Opt(Cls({"s"}))>>),
                                  Cat(<<Lit(<<"y","e","a","r">>), Opt(Cls({"s"}))>>)>>)],
   location    |-> [pre |-> Cat(<<Alt(<<Lit(<<"i","n">>), Lit(<<"a","t">>),
                                        Lit(<<"f","o","r">>), Lit(<<"o","f">>)>>),
                                  Sp1>>),
                    g1  |-> Cat(<<Cls(Letters), Plus(Cls(LowerCh)),
                                  Star(Cat(<<Sp1, Cls(Letters),
                                             Plus(Cls(LowerCh))>>))>>)]]

\* the whole pattern of an entry
Whole(p) ==
  IF "g2" \in DOMAIN p THEN Cat(<<p.pre, p.g1, p.mid, p.g2>>)
  ELSE Cat(<<p.pre, p.g1>>)

(***************************************************************************)
(* Python dicts                                                            *)
(***************************************************************************)
EmptyDict == [k \in {} |-> 0]

Put(d, k, v) == [x \in (DOMAIN d) \cup {k} |-> IF x = k THEN v ELSE d[x]]

Has(d, k) == k \in DOMAIN d

GetOr(d, k, dflt) == IF k \in DOMAIN d THEN d[k] ELSE dflt

(***************************************************************************)
(* CountryFuelProfile registry (src/app.py:45-80)                          *)
(***************************************************************************)
germany == <<"g","e","r","m","a","n","y">>

usa == <<"u","s","a">>

uk == <<"u","k">>

\* registry keys in dict order
CountryKeys == <<germany, usa, uk>>

\* tax_rate and vat in hundredths of a percent, price_factor in hundredths
COUNTRY_FUEL_DATA(c) ==
  CASE c = germany -> [tax_rate |-> 6545, vat |-> 1900, currency |-> "EUR",
                       local_name |-> "Germany", common_fuel |-> "Diesel",
                       price_factor |-> 115, price_unit |-> "EUR/liter",
                       crude_conversion |-> 159]
    [] c = usa     -> [tax_rate |-> 1840, vat |-> 0, currency |-> "USD",
                       local_name |-> "United States",
                       common_fuel |-> "Regular Gasoline",
                       price_factor |-> 105, price_unit |-> "USD/gallon",
                       crude_conversion |-> 42]
    [] c = uk      -> [tax_rate |-> 5795, vat |-> 2000, currency |-> "GBP",
                       local_name |-> "United Kingdom",
                       common_fuel |-> "Unleaded",
                       price_factor |-> 110, price_unit |-> "GBP/liter",
                       crude_conversion |-> 159]

\* country in COUNTRY_FUEL_DATA
InRegistry(c) == \E k \in DOMAIN CountryKeys : CountryKeys[k] = c

(***************************************************************************)
(* QueryProcessor (src/app.py:115-299)                                     *)
(***************************************************************************)
RECURSIVE FirstIntent(_, _)
\* the loop over INTENT_PATTERNS.items(): the first intent one of whose
\* patterns is found in the lowercased query
FirstIntent(q, k) ==
  IF k > Len(INTENT_PATTERNS) THEN "none"
  ELSE IF \E j \in DOMAIN INTENT_PATTERNS[k].patterns :
            Found(INTENT_PATTERNS[k].patterns[j], q)
    THEN INTENT_PATTERNS[k].intent
  ELSE FirstIntent(q, k + 1)

_identify_intent(query) ==
  With(Lower(query), LAMBDA query_lower :
  With(FirstIntent(query_lower, 1), LAMBDA hit :
    IF hit # "none" THEN hit
    ELSE IF Found(Whole(PARAMETER_PATTERNS.location), query)
            /\ Found(Alt(<<Lit(<<"f","u","e","l">>), Lit(<<"g","a","s">>),
                           Lit(<<"p","e","t","r","o","l">>),
                           Lit(<<"p","r","i","c","e">>)>>), query_lower)
      THEN "oil_price"
    ELSE "unknown"))

RECURSIVE FirstCountry(_, _)
\* the loop over COUNTRY_FUEL_DATA.keys(): the first key that stands as a
\* word of its own in the lowercased query; <<>> when there is none
FirstCountry(q, k) ==
  IF k > Len(CountryKeys) THEN <<>>
  ELSE IF Found(Cat(<<WordB, Lit(CountryKeys[k]), WordB>>), q)
    THEN CountryKeys[k]
  ELSE FirstCountry(q, k + 1)

\* the if/elif chain over the temporal patterns against its order: the
\* timeframe first and the date range last
ExtractTimeframeFirst(query) ==
  With(PARAMETER_PATTERNS, LAMBDA P :
  With(IF Found(Whole(P.timeframe), query)
         THEN Put(EmptyDict, "timeframe",
                  Group12(P.timeframe.pre, P.timeframe.g1,
                          P.timeframe.mid, P.timeframe.g2, query))
       ELSE IF Found(Whole(P.days_ago), query)
         THEN Put(EmptyDict, "days_ago",
                  Group12(P.days_ago.pre, P.days_ago.g1,
                          P.days_ago.mid, P.days_ago.g2, query)[1])
       ELSE IF Found(Whole(P.single_date), query)
         THEN Put(EmptyDict, "single_date",
                  Group1(P.single_date.pre, P.single_date.g1, query))
       ELSE IF Found(Whole(P.date_range), query)
         THEN Put(EmptyDict, "date_range",
                  Group12(P.date_range.pre, P.date_range.g1,
                          P.date_range.mid, P.date_range.g2, query))
       ELSE EmptyDict, LAMBDA temporal :
    IF Found(Whole(P.location), query)
      THEN Put(temporal, "location",
               Group1(P.location.pre, P.location.g1, query))
    ELSE temporal))

_extract_parameters(query) ==
  With(PARAMETER_PATTERNS, LAMBDA P :
  With(IF Found(Whole(P.date_range), query)
         THEN Put(EmptyDict, "date_range",
                  Group12(P.date_range.pre, P.date_range.g1,
                          P.date_range.mid, P.date_range.g2, query))
       ELSE IF Found(Whole(P.single_date), query)
         THEN Put(EmptyDict, "single_date",
                  Group1(P.single_date.pre, P.single_date.g1, query))
       ELSE IF Found(Whole(P.days_ago), query)
         THEN Put(EmptyDict, "days_ago",
                  Group12(P.days_ago.pre, P.days_ago.g1,
                          P.days_ago.mid, P.days_ago.g2, query)[1])
       ELSE IF Found(Whole(P.timeframe), query)
         THEN Put(EmptyDict, "timeframe",
                  Group12(P.timeframe.pre, P.timeframe.g1,
                          P.timeframe.mid, P.timeframe.g2, query))
       ELSE EmptyDict, LAMBDA temporal :
    IF Found(Whole(P.location), query)
      THEN Put(temporal, "location",
               Group1(P.location.pre, P.location.g1, query))
    ELSE With(FirstCountry(Lower(query), 1), LAMBDA country :
           IF country # <<>> THEN Put(temporal, "location", country)
           ELSE temporal)))

(***************************************************************************)
(* datetime.date, calendar                                                 *)
(***************************************************************************)
\* calendar.isleap
IsLeap(y) == y % 4 = 0 /\ (y % 100 # 0 \/ y % 400 = 0)

\* calendar.monthrange(y, m)[1]
DaysInMonth(y, m) ==
  IF m = 2 THEN (IF IsLeap(y) THEN 29 ELSE 28)
  ELSE IF m \in {4, 6, 9, 11} THEN 30 ELSE 31

DaysBeforeYear(y) ==
  (y - 1) * 365 + ((y - 1) \div 4) - ((y - 1) \div 100) + ((y - 1) \div 400)

RECURSIVE DaysBeforeMonth(_, _)
DaysBeforeMonth(y, m) ==
  IF m = 1 THEN 0 ELSE DaysBeforeMonth(y, m - 1) + DaysInMonth(y, m - 1)

\* date(y, m, d).toordinal()
ToOrdinal(y, m, d) == DaysBeforeYear(y) + DaysBeforeMonth(y, m) + d

\* date.min.toordinal() and date.max.toordinal()
MinOrdinal == 1

MaxOrdinal == 3652059

\* the largest number of days of a timedelta
MaxDeltaDays == 999999999

\* date.fromordinal(n), as year, month, day
FromOrdinal(n) ==
  LET n0   == n - 1
      n400 == n0 \div 146097
      r400 == n0 % 146097
      n100 == r400 \div 36524
      r100 == r400 % 36524
      n4   == r100 \div 1461
      r4   == r100 % 1461
      n1   == r4 \div 365
      r1   == r4 % 365
      y    == n400 * 400 + n100 * 100 + n4 * 4 + n1 + 1
  IN IF n1 = 4 \/ n100 = 4 THEN [y |-> y - 1, m |-> 12, d |-> 31]
     ELSE LET m == SetMax({k \in 1..12 : DaysBeforeMonth(y, k) <= r1})
          IN [y |-> y, m |-> m, d |-> r1 - DaysBeforeMonth(y, m) + 1]

RECURSIVE ZeroPad(_, _)
\* n as decimal digits, zero-padded to the width w
ZeroPad(n, w) ==
  IF w <= 1 /\ n < 10 THEN <<DigitSeq[n + 1]>>
  ELSE ZeroPad(n \div 10, w - 1) \o <<DigitSeq[(n % 10) + 1]>>

DigitVal(c) == (CHOOSE k \in DOMAIN DigitSeq : DigitSeq[k] = c) - 1

RECURSIVE ParseInt(_)
\* int(s) of a string of digits
ParseInt(s) ==
  IF s = <<>> THEN 0
  ELSE 10 * ParseInt(SubSeq(s, 1, Len(s) - 1)) + DigitVal(s[Len(s)])

\* date.isoformat()
isoformat(n) ==
  With(FromOrdinal(n), LAMBDA c :
    ZeroPad(c.y, 4) \o <<"-">> \o ZeroPad(c.m, 2) \o <<"-">>
      \o ZeroPad(c.d, 2))

\* date.fromisoformat(s) does not raise: s is a calendar date YYYY-MM-DD
IsIsoDate(s) ==
  /\ Len(s) = 10
  /\ \A k \in {1, 2, 3, 4, 6, 7, 9, 10} : s[k] \in Digits
  /\ s[5] = "-"
  /\ s[8] = "-"
  /\ LET y == ParseInt(SubSeq(s, 1, 4))
         m == ParseInt(SubSeq(s, 6, 7))
         d == ParseInt(SubSeq(s, 9, 10))
     IN y >= 1 /\ m \in 1..12 /\ d >= 1 /\ d <= DaysInMonth(y, m)

\* date.fromisoformat(s).toordinal(), for a string that parses
fromisoformat(s) ==
  ToOrdinal(ParseInt(SubSeq(s, 1, 4)), ParseInt(SubSeq(s, 6, 7)),
            ParseInt(SubSeq(s, 9, 10)))

RECURSIVE Split(_, _)
\* s.split(c)
Split(s, c) ==
  IF \A k \in DOMAIN s : s[k] # c THEN <<s>>
  ELSE LET k == SetMin({j \in DOMAIN s : s[j] = c})
       IN <<SubSeq(s, 1, k - 1)>> \o Split(SubSeq(s, k + 1, Len(s)), c)

\* the first day of the month of a date of 10 characters
NormalizeToMonthStart(date_str) ==
  IF Len(date_str) = 10 THEN SubSeq(date_str, 1, 8) \o <<"0","1">>
  ELSE date_str

\* QueryProcessor._normalize_date
_normalize_date(date_str) ==
  LET zfill2(t) == IF Len(t) < 2 THEN <<"0">> \o t ELSE t
  IN With(Split(date_str, "/"), LAMBDA parts :
       IF Len(parts) > 1 /\ Len(parts) = 3
         THEN (IF Len(parts[3]) = 2 THEN <<"2","0">> \o parts[3]
               ELSE parts[3])
                \o <<"-">> \o zfill2(parts[1]) \o <<"-">> \o zfill2(parts[2])
       ELSE IF Found(MonYearTok(TRUE), date_str)
         THEN With(Group12(Cat(<<>>), MonAbbr(TRUE), MonTail(TRUE), D(4),
                           date_str), LAMBDA g :
                g[2] \o <<"-">>
                  \o ZeroPad(CHOOSE j \in DOMAIN Months :
                               Lower(Months[j]) = Lower(g[1]), 2)
                  \o <<"-","0","1">>)
       ELSE date_str)

\* the location aliases of analyze_query (src/app.py:185-190)
NormalizeLocation(loc) ==
  LET l == Lower(loc)
  IN IF l \in {usa, <<"u","n","i","t","e","d"," ","s","t","a","t","e","s">>,
               <<"a","m","e","r","i","c","a">>, <<"u","s">>} THEN usa
     ELSE IF l \in {uk, <<"u","n","i","t","e","d"," ","k","i","n","g","d","o","m">>,
                    <<"b","r","i","t","a","i","n">>,
                    <<"e","n","g","l","a","n","d">>} THEN uk
     ELSE IF l \in {germany, <<"d","e","u","t","s","c","h","l","a","n","d">>}
       THEN germany
     ELSE loc

\* the number of days of the timedelta of a timeframe (src/app.py:165-174)
TimeframeDays(count, unit) ==
  LET has(w) == Found(Lit(w), unit)
  IN IF has(<<"d","a","y">>) THEN count
     ELSE IF has(<<"w","e","e","k">>) THEN 7 * count
     ELSE IF has(<<"m","o","n","t","h">>) THEN count * 30
     ELSE count * 365

\* end_date - timedelta(days) raises OverflowError: the timedelta or the
\* resulting date is out of range
DateSubRaises(today, days) ==
  days > MaxDeltaDays \/ today - days < MinOrdinal

\* start_date and end_date of the pair dr without the last day of the
\* month for an end date that is a month and a year
RangeDatesFirstDay(loc, dr) ==
  Put(Put(loc, "start_date", _normalize_date(dr[1])),
      "end_date", _normalize_date(dr[2]))

\* the branch "date_range" of analyze_query: start_date and end_date of
\* the pair of date strings dr, added to the parameters loc
RangeDates(loc, dr) ==
  With(_normalize_date(dr[2]), LAMBDA en :
  With(Split(en, "-"), LAMBDA ym :
    Put(Put(loc, "start_date", _normalize_date(dr[1])),
        "end_date",
        IF /\ Len(en) >= 3
           /\ SubSeq(en, Len(en) - 2, Len(en)) = <<"-","0","1">>
           /\ Found(MonYearTok(TRUE), dr[2])
          THEN ym[1] \o <<"-">> \o ym[2] \o <<"-">>
                 \o ZeroPad(DaysInMonth(ParseInt(ym[1]), ParseInt(ym[2])), 2)
          ELSE en)))

\* QueryProcessor.analyze_query; raised = TRUE when it ends in an exception
analyze_query(query, today) ==
  With(_identify_intent(query), LAMBDA intent :
  With(_extract_parameters(query), LAMBDA ex :
  With(IF Has(ex, "location")
         THEN Put(EmptyDict, "location", NormalizeLocation(ex.location))
         ELSE EmptyDict, LAMBDA loc :
  With(IF Has(ex, "days_ago") THEN ParseInt(ex.days_ago)
       ELSE IF Has(ex, "timeframe")
         THEN TimeframeDays(ParseInt(ex.timeframe[1]), ex.timeframe[2])
       ELSE 30, LAMBDA days :
    IF ~Has(ex, "date_range") /\ ~Has(ex, "single_date")
         /\ DateSubRaises(today, days)
      THEN [raised |-> TRUE, intent |-> intent, parameters |-> EmptyDict]
    ELSE [raised |-> FALSE, intent |-> intent,
          parameters |->
            IF Has(ex, "date_range") THEN RangeDates(loc, ex.date_range)
            ELSE IF Has(ex, "single_date")
              THEN Put(loc, "date", _normalize_date(ex.single_date))
            ELSE Put(Put(loc, "start_date", isoformat(today - days)),
                     "end_date", isoformat(today))]))))

(***************************************************************************)
(* Arithmetic.  Integers of the checker are 32 bits wide, so the products  *)
(* of the retail-price formula are kept as little-endian limbs in base     *)
(* 10000.                                                                  *)
(***************************************************************************)
Base == 10000

RECURSIVE BigMul(_, _, _)
\* the limbs of b * m + carry, for 0 <= m < 200000
BigMul(b, m, carry) ==
  IF b = <<>> THEN (IF carry = 0 THEN <<>> ELSE BigMul(<<carry>>, 1, 0))
  ELSE LET t == b[1] * m + carry
       IN <<t % Base>> \o BigMul(Tail(b), m, t \div Base)

RECURSIVE BigDiv(_, _, _)
\* long division of b by d (0 < d < 200000) from the top limb down, with
\* the incoming remainder r; gives the quotient's limbs and the remainder
BigDiv(b, d, r) ==
  IF b = <<>> THEN [q |-> <<>>, r |-> r]
  ELSE LET cur  == r * Base + b[Len(b)]
           rest == BigDiv(SubSeq(b, 1, Len(b) - 1), d, cur % d)
       IN [q |-> rest.q \o <<cur \div d>>, r |-> rest.r]

RECURSIVE BigToInt(_)
BigToInt(b) == IF b = <<>> THEN 0 ELSE b[1] + Base * BigToInt(Tail(b))

RECURSIVE DivAll(_, _, _)
\* b divided by every divisor of ds in turn: the floor of the quotient and
\* whether every division was exact
DivAll(b, ds, exact) ==
  IF ds = <<>> THEN [q |-> BigToInt(b), exact |-> exact]
  ELSE LET x == BigDiv(b, ds[1], 0)
       IN DivAll(x.q, Tail(ds), exact /\ x.r = 0)

\* round() of a number given as twice its floor and an exactness flag:
\* halves go to the even neighbour
RoundHalf(q2, exact) ==
  IF q2 % 2 = 0 THEN q2 \div 2
  ELSE IF exact /\ ((q2 - 1) \div 2) % 2 = 0 THEN (q2 - 1) \div 2
  ELSE (q2 + 1) \div 2

\* round(a / b) for integers a and b > 0, halves to the even neighbour
RoundDiv(a, b) == RoundHalf((2 * a) \div b, (2 * a) % b = 0)

RECURSIVE SumSeq(_)
SumSeq(v) == IF v = <<>> THEN 0 ELSE v[1] + SumSeq(Tail(v))

SeqMin(v) == SetMin({v[k] : k \in DOMAIN v})

SeqMax(v) == SetMax({v[k] : k \in DOMAIN v})

\* sorted(v)[k]: the k-th smallest value
KthSmallest(v, k) ==
  CHOOSE x \in {v[j] : j \in DOMAIN v} :
    /\ Cardinality({j \in DOMAIN v : v[j] < x}) < k
    /\ Cardinality({j \in DOMAIN v : v[j] <= x}) >= k

\* round(statistics.stdev(v)) in the unit of v, for Len(v) >= 2; the
\* variance does not change when v[1] is subtracted from every value
StdevRounded(v) ==
  LET n  == Len(v)
      y  == [k \in DOMAIN v |-> v[k] - v[1]]
      s1 == SumSeq(y)
      s2 == SumSeq([k \in DOMAIN y |-> y[k] * y[k]])
      num == n * s2 - s1 * s1
      den == n * (n - 1)
  IN CHOOSE r \in 0..(SeqMax(v) - SeqMin(v)) :
       /\ (2 * r - 1) * (2 * r - 1) * den <= 4 * num \/ r = 0
       /\ 4 * num < (2 * r + 1) * (2 * r + 1) * den

(***************************************************************************)
(* Optional values: None is the empty tuple                                *)
(***************************************************************************)
None == <<>>

Some(x) == <<x>>

(***************************************************************************)
(* DataFetcher (src/app.py:302-617)                                        *)
(***************************************************************************)
\* DataFetcher._calculate_statistics; prices in cents, percent_change in
\* hundredths of a percent, mean and median as exact fractions
_calculate_statistics(data) ==
  IF Len(data) < 2 THEN None
  ELSE With([k \in DOMAIN data |-> data[k].value], LAMBDA values :
       LET n == Len(values)
       IN Some([min   |-> SeqMin(values),
                max   |-> SeqMax(values),
                mean  |-> [num |-> SumSeq(values), den |-> n],
                median |->
                  IF n % 2 = 1
                    THEN [num |-> KthSmallest(values, (n + 1) \div 2), den |-> 1]
                    ELSE [num |-> KthSmallest(values, n \div 2)
                                    + KthSmallest(values, n \div 2 + 1),
                          den |-> 2],
                range |-> SeqMax(values) - SeqMin(values),
                start_price |-> values[1],
                end_price   |-> values[n],
                percent_change |->
                  RoundDiv(10000 * (values[n] - values[1]), values[1]),
                volatility |-> StdevRounded(values)]))

\* a retail price whose duty and VAT are added up and applied as one
\* percentage
RetailCentsAdditive(brent, cfg, fx) ==
  With(DivAll(BigMul(BigMul(BigMul(BigMul(<<brent>>, cfg.price_factor, 0),
                                   10000 + cfg.tax_rate + cfg.vat, 0),
                            fx, 0), 2, 0),
              <<cfg.crude_conversion, 10000, 100, 10000>>, TRUE),
       LAMBDA x : RoundHalf(x.q, x.exact))

\* the retail price in cents: brent * price_factor / crude_conversion, times
\* (1 + tax_rate/100), times (1 + vat/100), times the rate fx (in 1/10000),
\* rounded to 2 decimals
RetailCents(brent, cfg, fx) ==
  With(DivAll(BigMul(BigMul(BigMul(BigMul(BigMul(<<brent>>,
                                                  cfg.price_factor, 0),
                                           10000 + cfg.tax_rate, 0),
                                    10000 + cfg.vat, 0), fx, 0), 2, 0),
              <<cfg.crude_conversion, 10000, 10000, 100, 10000>>, TRUE),
       LAMBDA x : RoundHalf(x.q, x.exact))

\* exchange rates are integers in units of 1/10000; this is the rate 1.0
RateOne == 10000

\* DataFetcher._compute_retail_price; it applies no exchange rate
_compute_retail_price(brent_price_usd, country) ==
  IF ~InRegistry(country) THEN None
  ELSE With(COUNTRY_FUEL_DATA(country), LAMBDA cfg :
         Some([price |-> RetailCents(brent_price_usd, cfg, RateOne),
               unit |-> cfg.price_unit,
               country |-> cfg.local_name,
               common_fuel |-> cfg.common_fuel,
               currency |-> cfg.currency]))

\* the live or default rate of a currency that is JSON null
NullRate == -1

\* random.uniform(-0.5, 0.5) in cents, for the i-th point of the run whose
\* generator state is seed
Noise(seed, i) == ((seed * (i + 7) * 37) % 101) - 50

Raise(e) == [raised |-> TRUE, error |-> e]

Return(v) == [raised |-> FALSE, value |-> v]

\* "location" in parameters and parameters["location"] in COUNTRY_FUEL_DATA
HasCountry(parameters) ==
  Has(parameters, "location") /\ InRegistry(parameters.location)

\* the number of points without the day of end_date
DeltaDaysExclusive(start_date, end_date) == end_date - start_date

\* delta = end_date - start_date; days = delta.days + 1
DeltaDays(start_date, end_date) == (end_date - start_date) + 1

\* DataFetcher._generate_mock_oil_data
_generate_mock_oil_data(parameters, today, seed) ==
  With(GetOr(parameters, "start_date", isoformat(today - 30)), LAMBDA sd :
  With(GetOr(parameters, "end_date", isoformat(today)), LAMBDA ed :
    IF ~IsIsoDate(sd) \/ ~IsIsoDate(ed) THEN Raise("ValueError")
    ELSE
      With(fromisoformat(sd), LAMBDA start_date :
      With([j \in 1..DeltaDays(start_date, fromisoformat(ed)) |->
              [date  |-> isoformat(start_date + (j - 1)),
               value |-> 8000 + ((j - 1) % 10) * 10 + Noise(seed, j - 1)]],
           LAMBDA data :
      With(_calculate_statistics(data), LAMBDA stats :
        LET result(st) == [data |-> data, stats |-> st,
                           source |-> "Mock data", parameters |-> parameters]
        IN IF ~HasCountry(parameters) THEN Return(result(stats))
           ELSE IF data = <<>> THEN Raise("IndexError")
           ELSE
             With(COUNTRY_FUEL_DATA(parameters.location).currency,
                  LAMBDA currency :
             With(_compute_retail_price(data[Len(data)].value,
                                        parameters.location), LAMBDA retail :
               IF stats = None THEN Raise("TypeError")
               ELSE Return(result(Some(
                      Put(Put(stats[1], "retail_price", retail[1]),
                          "fx_rate",
                          IF currency = "EUR" THEN 9200
                          ELSE IF currency = "GBP" THEN 7900
                          ELSE RateOne)))))))))))

RECURSIVE MockRates(_, _, _)
\* the loop of _generate_mock_fx_data over enumerate(symbols)
MockRates(symbols, base, i) ==
  IF i > Len(symbols) THEN EmptyDict
  ELSE LET rest == MockRates(symbols, base, i + 1)
       IN IF symbols[i] # base /\ ~Has(rest, symbols[i])
            THEN Put(rest, symbols[i], RateOne + (i - 1) * 1000)
            ELSE rest

\* DataFetcher._generate_mock_fx_data; parameters.currencies is the list
\* of symbols the comma-separated string names
_generate_mock_fx_data(parameters) ==
  LET symbols == GetOr(parameters, "currencies",
                      <<"EUR", "USD", "GBP", "JPY", "CAD">>)
      base    == GetOr(parameters, "base_currency", "USD")
  IN [rates |-> MockRates(symbols, base, 1), base |-> base,
      source |-> "Mock data"]

\* the outcomes of a call of an external collaborator that end in an
\* exception: an HTTP error status (which stands for a timeout and a
\* transport error too: all are raised inside the try block) and a body
\* that is no JSON
Failures == {"http_error", "not_json"}

\* DataFetcher._fetch_fx_rates; live is the outcome of the call and
\* liveRates the "rates" object of an answer that has one
_fetch_fx_rates(parameters, env) ==
  IF ~env.oxr_key
    THEN [value |-> _generate_mock_fx_data(parameters), oxr |-> 0]
  ELSE IF env.oxr \in Failures \/ env.oxr = "no_rates"
    THEN [value |-> _generate_mock_fx_data(parameters), oxr |-> 1]
  ELSE [value |-> [rates |-> IF env.oxr = "null_rate"
                               THEN [c \in {"EUR", "GBP"} |-> NullRate]
                               ELSE [c \in {"EUR", "GBP"} |->
                                       IF c = "EUR" THEN 9134 ELSE 7811],
                   base |-> GetOr(parameters, "base_currency", "USD"),
                   source |-> "Open Exchange Rates API"],
        oxr |-> 1]

\* the bodies the oil-price API may answer with: has_response says whether
\* body["response"]["data"] exists, items is that list; an item may lack
\* "period" or "value" (wellformed = FALSE) and its value may be a string
\* that float() rejects (numeric = FALSE)
EiaBody(kind) ==
  LET item(d, v) == [wellformed |-> TRUE, numeric |-> TRUE,
                     period |-> d, value |-> v]
      d1 == <<"2","0","2","4","-","0","5","-","0","1">>
      d2 == <<"2","0","2","4","-","0","5","-","0","2">>
      d3 == <<"2","0","2","4","-","0","5","-","0","3">>
  IN CASE kind = "ok3" ->
            [has_response |-> TRUE,
             items |-> <<item(d1, 8100), item(d2, 8325), item(d3, 8550)>>]
       [] kind = "ok1" ->
            [has_response |-> TRUE, items |-> <<item(d3, 8550)>>]
       [] kind = "empty" -> [has_response |-> TRUE, items |-> <<>>]
       [] kind = "malformed" ->
            [has_response |-> TRUE,
             items |-> <<[wellformed |-> FALSE, numeric |-> TRUE,
                          period |-> d1, value |-> 0]>>]
       [] kind = "bad_value" ->
            [has_response |-> TRUE,
             items |-> <<item(d1, 8100),
                         [wellformed |-> TRUE, numeric |-> FALSE,
                          period |-> d2, value |-> 0]>>]
       [] OTHER -> [has_response |-> FALSE, items |-> <<>>]

\* the body of the try block of DataFetcher._fetch_oil_prices, once the
\* answer has arrived; mock is the result of _generate_mock_oil_data
OilTryBody(parameters, env, mock) ==
  With(EiaBody(env.eia), LAMBDA body :
  With(SelectSeq(body.items, LAMBDA it : it.wellformed), LAMBDA kept :
  With([k \in DOMAIN kept |->
          [date |-> kept[k].period, value |-> kept[k].value]],
       LAMBDA transformed_data :
  With(_calculate_statistics(transformed_data), LAMBDA stats :
    LET live(st) == [data |-> transformed_data, stats |-> st,
                     source |-> "EIA API", parameters |-> parameters]
    IN IF ~body.has_response
         THEN [r |-> mock, mock |-> 1, oxr |-> 0]
       ELSE IF \E k \in DOMAIN kept : ~kept[k].numeric
         THEN [r |-> Raise("ValueError"), mock |-> 0, oxr |-> 0]
       ELSE IF ~HasCountry(parameters)
         THEN [r |-> Return(live(stats)), mock |-> 0, oxr |-> 0]
       ELSE IF transformed_data = <<>>
         THEN [r |-> Raise("IndexError"), mock |-> 0, oxr |-> 0]
       ELSE
         With(COUNTRY_FUEL_DATA(parameters.location).currency,
              LAMBDA target_currency :
         With(_fetch_fx_rates([currencies |-> <<target_currency>>], env),
              LAMBDA fx :
         With(IF target_currency # "USD" THEN fx.oxr ELSE 0, LAMBDA oxr :
         With(_compute_retail_price(
                transformed_data[Len(transformed_data)].value,
                parameters.location), LAMBDA retail :
           IF stats = None
             THEN [r |-> Raise("TypeError"), mock |-> 0, oxr |-> oxr]
           ELSE [r |-> Return(live(Some(
                         Put(Put(stats[1], "retail_price", retail[1]),
                             "fx_rate",
                             IF target_currency # "USD"
                                  /\ target_currency \in DOMAIN fx.value.rates
                               THEN fx.value.rates[target_currency]
                               ELSE RateOne)))),
                 mock |-> 0, oxr |-> oxr]))))))))

\* DataFetcher._fetch_oil_prices; eia, oxr and mock count the calls of the
\* two collaborators and the runs of the synthetic generator
_fetch_oil_prices(parameters, env) ==
  With(_generate_mock_oil_data(parameters, env.today, env.seed), LAMBDA mock :
    IF ~env.eia_key
      THEN [r |-> mock, eia |-> 0, oxr |-> 0, mock |-> 1]
    ELSE IF env.eia \in Failures
      THEN [r |-> mock, eia |-> 1, oxr |-> 0, mock |-> 1]
    ELSE
      With(OilTryBody(parameters, env, mock), LAMBDA t :
        IF t.r.raised
          \* except Exception: the generator runs (again)
          THEN [r |-> mock, eia |-> 1, oxr |-> t.oxr, mock |-> t.mock + 1]
          ELSE [r |-> t.r, eia |-> 1, oxr |-> t.oxr, mock |-> t.mock]))

NewYork == <<"N","e","w"," ","Y","o","r","k">>

\* DataFetcher._generate_mock_weather_data; temperatures in tenths of a
\* degree
_generate_mock_weather_data(parameters) ==
  [location |-> GetOr(parameters, "location", NewYork),
   country |-> Some("US"), temperature |-> Some(225),
   feels_like |-> Some(230), humidity |-> Some(65),
   description |-> Some("partly cloudy"), source |-> "Mock data"]

\* DataFetcher._fetch_weather; the answers of the weather API are a full
\* report ("ok"), an object without the expected members ("empty_object")
\* and a report whose "weather" list is empty ("empty_list")
_fetch_weather(parameters, env) ==
  LET location == GetOr(parameters, "location", NewYork)
      mock == _generate_mock_weather_data(parameters)
  IN IF ~env.weather_key THEN [value |-> mock, weather |-> 0]
     ELSE IF env.weather \in Failures \/ env.weather = "empty_list"
       THEN [value |-> mock, weather |-> 1]
     ELSE IF env.weather = "empty_object"
       THEN [value |-> [location |-> location, country |-> None,
                        temperature |-> None, feels_like |-> None,
                        humidity |-> None, description |-> None,
                        source |-> "OpenWeatherMap API"],
             weather |-> 1]
     ELSE [value |-> [location |-> location, country |-> Some("GB"),
                      temperature |-> Some(114), feels_like |-> Some(102),
                      humidity |-> Some(81),
                      description |-> Some("light rain"),
                      source |-> "OpenWeatherMap API"],
           weather |-> 1]

\* DataFetcher.fetch_data; origin says where the data really comes from
\* (the API, the generator, or nowhere); calls counts the calls of each collaborator and
\* the runs of the synthetic oil generator
fetch_data(intent, parameters, env) ==
  LET none == [eia |-> 0, oxr |-> 0, weather |-> 0, mock |-> 0]
  IN IF intent = "oil_price"
       THEN With(_fetch_oil_prices(parameters, env), LAMBDA f :
              [data  |-> IF f.r.raised
                           THEN [error |-> f.r.error, intent |-> intent]
                           ELSE f.r.value,
               origin |-> IF f.r.raised THEN "none"
                          ELSE IF f.mock > 0 THEN "synthetic" ELSE "live",
               calls |-> [none EXCEPT !.eia = f.eia, !.oxr = f.oxr,
                                      !.mock = f.mock]])
     ELSE IF intent = "fx_rates"
       THEN With(_fetch_fx_rates(parameters, env), LAMBDA f :
              [data |-> f.value,
               origin |-> IF env.oxr \in {"ok", "null_rate"} THEN "live"
                          ELSE "synthetic",
               calls |-> [none EXCEPT !.oxr = f.oxr]])
     ELSE IF intent = "weather"
       THEN With(_fetch_weather(parameters, env), LAMBDA f :
              [data |-> f.value,
               origin |-> IF env.weather \in {"ok", "empty_object"}
                            THEN "live"
                          ELSE "synthetic",
               calls |-> [none EXCEPT !.weather = f.weather]])
     ELSE [data  |-> [error |-> "Unsupported intent", intent |-> intent],
           origin |-> "none", calls |-> none]

(***************************************************************************)
(* ResponseGenerator (src/app.py:620-807).  A text is the template it was  *)
(* built from together with the values the template embeds.                *)
(***************************************************************************)
\* the trend wording of a percent change given in hundredths of a percent
TrendDescription(percent_change) ==
  IF percent_change > 500 THEN "strongly upward"
  ELSE IF percent_change > 100 THEN "moderately upward"
  ELSE IF percent_change < -500 THEN "strongly downward"
  ELSE IF percent_change < -100 THEN "moderately downward"
  ELSE "stable"

\* ResponseGenerator._generate_oil_price_response
_generate_oil_price_response(data) ==
  LET price_data == data.data
      stats == data.stats
      n == Len(price_data)
      head == [source |-> data.source, start_date |-> price_data[1].date,
               end_date |-> price_data[n].date,
               latest_price |-> price_data[n].value]
  IN IF price_data = <<>>
       THEN [text |-> [template |-> "no_oil_data"], data |-> None]
     ELSE [text |->
             IF stats # None
               THEN [template |-> "oil_trend", head |-> head,
                     trend |-> TrendDescription(stats[1].percent_change),
                     percent_change |-> stats[1].percent_change,
                     min |-> stats[1].min, max |-> stats[1].max,
                     volatility |-> stats[1].volatility,
                     retail |-> IF Has(stats[1], "retail_price")
                                  THEN Some([quote |-> stats[1].retail_price,
                                             fx_rate |-> stats[1].fx_rate])
                                  ELSE None]
               ELSE [template |-> "oil_latest", head |-> head],
           data |-> Some([type |-> "oil_price", price_data |-> price_data,
                          stats |-> stats,
                          visualization |->
                            [x_axis |-> [k \in DOMAIN price_data |->
                                           price_data[k].date],
                             y_axis |-> [k \in DOMAIN price_data |->
                                           price_data[k].value],
                             title |-> "Brent Crude Oil Prices",
                             type |-> "line"]])]

\* ResponseGenerator._generate_fx_rate_response; formatting a rate that is
\* not a number with ":.4f" raises TypeError
_generate_fx_rate_response(data) ==
  LET rates == data.rates
  IN IF DOMAIN rates = {}
       THEN Return([text |-> [template |-> "no_fx_data"], data |-> None])
     ELSE IF \E c \in DOMAIN rates : rates[c] = NullRate
       THEN Raise("TypeError")
     ELSE Return([text |-> [template |-> "fx_rates", source |-> data.source,
                            base |-> data.base, rates |-> rates],
                  data |-> Some([type |-> "fx_rates", rates |-> rates,
                                 base |-> data.base,
                                 visualization |->
                                   [x_axis |-> DOMAIN rates, y_axis |-> rates,
                                    title |-> "Exchange Rates",
                                    type |-> "bar"]])])

\* ResponseGenerator._generate_weather_response
_generate_weather_response(data) ==
  IF data.location = <<>> \/ data.temperature = None
    THEN [text |-> [template |-> "no_weather_data"], data |-> None]
  ELSE [text |-> [template |-> "weather", source |-> data.source,
                  location |-> data.location, country |-> data.country,
                  description |-> data.description,
                  temperature |-> data.temperature],
        data |-> Some([type |-> "weather", location |-> data.location,
                       country |-> data.country,
                       temperature |-> data.temperature,
                       feels_like |-> data.feels_like,
                       humidity |-> data.humidity,
                       description |-> data.description])]

\* ResponseGenerator.generate_response
generate_response(query_analysis, data) ==
  LET intent == query_analysis.intent
  IN IF Has(data, "error")
       THEN Return([text |-> [template |-> "error", error |-> data.error],
                    data |-> None])
     ELSE IF intent = "oil_price"
       THEN Return(_generate_oil_price_response(data))
     ELSE IF intent = "fx_rates" THEN _generate_fx_rate_response(data)
     ELSE IF intent = "weather"
       THEN Return(_generate_weather_response(data))
     ELSE Return([text |-> [template |-> "clarify"], data |-> None])

(***************************************************************************)
(* Data services (src/backend/services/data.py).  An item of a series is   *)
(* a date, a value in cents and whether the value is a number or a string  *)
(* that float() accepts (numeric).                                         *)
(***************************************************************************)
\* generate_mock_oil_data(start, end); strptime raises on a string that is
\* no date, and on None
generate_mock_oil_data(start, end, seed) ==
  IF start = None \/ end = None THEN Raise("TypeError")
  ELSE IF ~IsIsoDate(start[1]) \/ ~IsIsoDate(end[1]) THEN Raise("ValueError")
  ELSE With(fromisoformat(start[1]), LAMBDA start_date :
         Return([j \in 1..DeltaDays(start_date, fromisoformat(end[1])) |->
                   [date  |-> isoformat(start_date + (j - 1)),
                    value |-> 8000 + ((j - 1) % 10) * 10 + Noise(seed, j - 1),
                    numeric |-> TRUE]]))

\* fetch_oil_prices(start, end) of data.py; origin records where the
\* returned series really comes from
fetch_oil_prices(start, end, env) ==
  With(generate_mock_oil_data(start, end, env.seed), LAMBDA mock :
  With(EiaBody(env.eia), LAMBDA body :
  With(SelectSeq(body.items, LAMBDA it : it.wellformed), LAMBDA kept :
    LET synthetic(n, m) ==
          [r |-> mock, origin |-> "synthetic", eia |-> n, mock |-> m]
    IN IF ~env.eia_key THEN synthetic(0, 1)
       ELSE IF env.eia \in Failures THEN synthetic(1, 1)
       ELSE IF ~body.has_response \/ (kept = <<>> /\ body.items # <<>>)
         \* the generator runs inside the try block: if it raises, the
         \* handler runs it again
         THEN synthetic(1, IF mock.raised THEN 2 ELSE 1)
       ELSE [r |-> Return([k \in DOMAIN kept |->
                             [date |-> kept[k].period,
                              value |-> kept[k].value,
                              numeric |-> kept[k].numeric]]),
             origin |-> "live", eia |-> 1, mock |-> 0])))

RECURSIVE MockRatesAll(_, _)
\* the dict comprehension of generate_mock_fx_data of data.py
MockRatesAll(symbols, i) ==
  IF i > Len(symbols) THEN EmptyDict
  ELSE LET rest == MockRatesAll(symbols, i + 1)
       IN IF Has(rest, symbols[i]) THEN rest
          ELSE Put(rest, symbols[i], RateOne + (i - 1) * 1000)

\* generate_mock_fx_data(symbols) of data.py
generate_mock_fx_data(symbols) == MockRatesAll(symbols, 1)

\* fetch_fx_rates(base, symbols) of data.py: a dict of rates
fetch_fx_rates(symbols, env) ==
  IF ~env.oxr_key THEN [value |-> generate_mock_fx_data(symbols), oxr |-> 0]
  ELSE IF env.oxr \in Failures \/ env.oxr = "no_rates"
    THEN [value |-> generate_mock_fx_data(symbols), oxr |-> 1]
  ELSE [value |-> IF env.oxr = "null_rate"
                    THEN [c \in {"EUR", "GBP"} |-> NullRate]
                    ELSE [c \in {"EUR", "GBP"} |->
                            IF c = "EUR" THEN 9134 ELSE 7811],
        oxr |-> 1]

(***************************************************************************)
(* MCP tools (src/backend/services/mcp_tools.py)                           *)
(***************************************************************************)
\* the trend of analyze_price_data: it compares the unrounded percent
\* change (last - first) / first * 100 with 5, 1, -5 and -1
TrendOf(first_price, last_price) ==
  LET d == 100 * (last_price - first_price)
  IN IF d > 5 * first_price THEN "strongly upward"
     ELSE IF d > first_price THEN "moderately upward"
     ELSE IF d < -5 * first_price THEN "strongly downward"
     ELSE IF d < -first_price THEN "moderately downward"
     ELSE "relatively stable"

\* analyze_price_data
analyze_price_data(oil_data) ==
  IF Len(oil_data) < 2 THEN [trend |-> "insufficient data", stats |-> None]
  ELSE
    With(SelectSeq(oil_data, LAMBDA it : it.numeric), LAMBDA kept :
    With([k \in DOMAIN kept |-> kept[k].value], LAMBDA values :
      LET n == Len(values)
      IN IF values = <<>> THEN [trend |-> "invalid data", stats |-> None]
         ELSE [trend |-> TrendOf(values[1], values[n]),
               stats |->
                 Some([min   |-> SeqMin(values),
                       max   |-> SeqMax(values),
                       mean  |-> [num |-> SumSeq(values), den |-> n],
                       median |->
                         IF n % 2 = 1
                           THEN [num |-> KthSmallest(values, (n + 1) \div 2),
                                 den |-> 1]
                           ELSE [num |-> KthSmallest(values, n \div 2)
                                           + KthSmallest(values, n \div 2 + 1),
                                 den |-> 2],
                       range |-> SeqMax(values) - SeqMin(values),
                       start_price |-> values[1],
                       end_price   |-> values[n],
                       percent_change |->
                         RoundDiv(10000 * (values[n] - values[1]), values[1]),
                       volatility |->
                         IF n > 1 THEN StdevRounded(values) ELSE 0])]))

\* the alias lists country_names, in dict order
country_names ==
  <<[country |-> germany,
     aliases |-> <<germany, <<"d","e","u","t","s","c","h","l","a","n","d">>>>],
    [country |-> usa,
     aliases |-> <<usa, <<"u","n","i","t","e","d"," ","s","t","a","t","e","s">>,
                   <<"a","m","e","r","i","c","a">>, <<"u","s">>>>],
    [country |-> uk,
     aliases |-> <<uk, <<"u","n","i","t","e","d"," ","k","i","n","g","d","o","m">>,
                   <<"b","r","i","t","a","i","n">>,
                   <<"e","n","g","l","a","n","d">>,
                   <<"l","o","n","d","o","n">>>>]>>

RECURSIVE AliasCountry(_, _)
\* the loop over country_names.items(): the first country one of whose
\* aliases is a substring of the lowercased question; <<>> if none is
AliasCountry(question_lower, k) ==
  IF k > Len(country_names) THEN <<>>
  ELSE IF \E j \in DOMAIN country_names[k].aliases :
            Found(Lit(country_names[k].aliases[j]), question_lower)
    THEN country_names[k].country
  ELSE AliasCountry(question_lower, k + 1)

\* the year and the number of the month of the month-year expression
\* that is found in t
MonthYear(t) ==
  With(Group12(Cat(<<>>), MonAbbr(TRUE), MonTail(TRUE), D(4), t), LAMBDA g :
    [year |-> g[2],
     month |-> CHOOSE j \in DOMAIN Months : Lower(Months[j]) = Lower(g[1])])

\* the date range of ask_llm and of parse_query_fallback: only month-year
\* expressions of a matched range are converted, anything else becomes
\* the default
BackendDates(question, today) ==
  With(Alt(<<MonYearTok(TRUE), IsoTok, SlashTok>>), LAMBDA tok :
  With([start_date |-> isoformat(today - 30), end_date |-> isoformat(today)],
       LAMBDA defaults :
    IF ~Found(Cat(<<RangePre(TRUE), tok, RangeMid(TRUE), tok>>), question)
      THEN defaults
    ELSE
      With(Group12(RangePre(TRUE), tok, RangeMid(TRUE), tok, question),
           LAMBDA g :
        [start_date |->
           IF Found(MonYearTok(TRUE), g[1])
             THEN With(MonthYear(g[1]), LAMBDA m :
                    m.year \o <<"-">> \o ZeroPad(m.month, 2)
                      \o <<"-","0","1">>)
             ELSE defaults.start_date,
         end_date |->
           IF Found(MonYearTok(TRUE), g[2])
             THEN With(MonthYear(g[2]), LAMBDA m :
                    m.year \o <<"-">> \o ZeroPad(m.month, 2) \o <<"-">>
                      \o ZeroPad(DaysInMonth(ParseInt(m.year), m.month), 2))
             ELSE defaults.end_date])))

\* x in question_lower for some x of terms
AnyTerm(terms, question_lower) ==
  \E k \in DOMAIN terms : Found(Lit(terms[k]), question_lower)

\* parse_query_fallback
parse_query_fallback(question, today) ==
  With(Lower(question), LAMBDA question_lower :
  With(AliasCountry(question_lower, 1), LAMBDA country :
  With(BackendDates(question, today), LAMBDA dates :
  With([intent |->
          IF AnyTerm(<<<<"o","i","l">>, <<"c","r","u","d","e">>,
                       <<"p","r","i","c","e">>, <<"b","r","e","n","t">>,
                       <<"f","u","e","l">>, <<"g","a","s">>,
                       <<"p","e","t","r","o","l">>>>, question_lower)
            THEN "oil_price"
          ELSE IF AnyTerm(<<<<"f","x">>, <<"e","x","c","h","a","n","g","e">>,
                            <<"c","u","r","r","e","n","c","y">>,
                            <<"r","a","t","e">>>>, question_lower)
            THEN "fx_rates"
          ELSE IF AnyTerm(<<<<"w","e","a","t","h","e","r">>,
                            <<"t","e","m","p","e","r","a","t","u","r","e">>,
                            <<"r","a","i","n">>,
                            <<"f","o","r","e","c","a","s","t">>>>,
                          question_lower)
            THEN "weather"
          ELSE "oil_price",
        start_date |-> Some(dates.start_date),
        end_date |-> Some(dates.end_date),
        refined_question |-> question, original_query |-> question],
       LAMBDA base :
    IF country # <<>> THEN Put(base, "location", country) ELSE base))))

\* the outcomes of a call of the LLM: an exception, status 401, an answer
\* without the expected members, or an answer
LlmFailures == Failures \cup {"401", "bad_payload"}

\* parse_query_with_llm; llm is the outcome of the call.  The answers that
\* are JSON are: the parse of the fallback parser ("agree"), intent unknown
\* without dates ("unknown"), and a date range whose dates are null
\* ("null_dates"); "not_json_content" is an answer that is no JSON
parse_query_with_llm(question, today, llm_key, llm) ==
  With(parse_query_fallback(question, today), LAMBDA fb :
    IF ~llm_key \/ llm \in LlmFailures \/ llm = "not_json_content" THEN fb
    ELSE IF llm = "unknown"
      THEN [intent |-> "unknown",
            start_date |-> Some(isoformat(today - 30)),
            end_date |-> Some(isoformat(today)),
            refined_question |-> question, original_query |-> question]
    ELSE IF llm = "null_dates"
      THEN [intent |-> "oil_price", start_date |-> None, end_date |-> None,
            refined_question |-> question, original_query |-> question]
    ELSE fb)

\* oil_data[-5:] if oil_data and len(oil_data) >= 5 else oil_data
RecentPrices(oil_data) ==
  IF Len(oil_data) >= 5 THEN SubSeq(oil_data, Len(oil_data) - 4, Len(oil_data))
  ELSE oil_data

\* oil_data[-1] if oil_data and len(oil_data) > 0 else None
LatestPrice(oil_data) ==
  IF oil_data # <<>> THEN Some(oil_data[Len(oil_data)]) ELSE None

\* the latest value as a float: 80.0 stands in for a string that is none
LatestUsd(oil_data) ==
  IF oil_data[Len(oil_data)].numeric THEN oil_data[Len(oil_data)].value
  ELSE 8000

\* steps 1 and 2 of process_market_query, after the parse: the fetches and
\* the statistics.  An exception ends the request in the handler of
\* process_market_query.
market_fetch(parameters, env) ==
  LET none == [eia |-> 0, oxr |-> 0, weather |-> 0, mock |-> 0]
  IN IF parameters.intent \in {"oil_price", "unknown"}
       THEN
         With(fetch_oil_prices(parameters.start_date, parameters.end_date,
                               env), LAMBDA f :
         With([none EXCEPT !.eia = f.eia, !.mock = f.mock], LAMBDA oilCalls :
           IF f.r.raised
             THEN [r |-> f.r, origin |-> "none", calls |-> oilCalls]
           ELSE
             With(f.r.value, LAMBDA oil_data :
             With(analyze_price_data(oil_data).stats, LAMBDA stats :
               LET done(st, c) ==
                     [r |-> Return([oil_data |->
                                      [recent_prices |-> RecentPrices(oil_data),
                                       latest_price |-> LatestPrice(oil_data),
                                       stats |-> st]]),
                      origin |-> f.origin, calls |-> c]
               IN IF ~(HasCountry(parameters) /\ oil_data # <<>>)
                    THEN done(stats, oilCalls)
                  ELSE
                    With(COUNTRY_FUEL_DATA(parameters.location),
                         LAMBDA country_data :
                    With(fetch_fx_rates(<<country_data.currency>>, env),
                         LAMBDA fx :
                    With(IF country_data.currency # "USD"
                              /\ country_data.currency \in DOMAIN fx.value
                           THEN fx.value[country_data.currency]
                           ELSE RateOne, LAMBDA fx_rate :
                    With([oilCalls EXCEPT
                            !.oxr = IF country_data.currency # "USD"
                                      THEN fx.oxr ELSE 0], LAMBDA c :
                      IF fx_rate = NullRate \/ stats = None
                        THEN [r |-> Raise("TypeError"), origin |-> "none",
                              calls |-> c]
                      ELSE done(Some(
                             Put(Put(stats[1], "retail_price",
                                     [price |-> RetailCents(LatestUsd(oil_data),
                                                            country_data,
                                                            fx_rate),
                                      unit |-> country_data.price_unit,
                                      country |-> country_data.local_name,
                                      common_fuel |-> country_data.common_fuel,
                                      currency |-> country_data.currency]),
                                 "fx_rate", fx_rate)), c)))))))))
     ELSE IF parameters.intent = "fx_rates"
       THEN With(fetch_fx_rates(
                   <<GetOr(parameters, "currency", "EUR"), "USD", "GBP",
                     "JPY", "CAD">>, env), LAMBDA x :
              [r |-> Return([fx_data |-> [rates |-> x.value, base |-> "USD"]]),
               origin |-> "none", calls |-> [none EXCEPT !.oxr = x.oxr]])
     ELSE [r |-> Return(EmptyDict), origin |-> "none", calls |-> none]

\* the trend of format_fallback_response, from the rounded percent change
FallbackTrend(percent_change) ==
  IF percent_change > 500 THEN "strongly upward"
  ELSE IF percent_change > 100 THEN "moderately upward"
  ELSE IF percent_change < -500 THEN "strongly downward"
  ELSE IF percent_change < -100 THEN "moderately downward"
  ELSE "stable"

\* format_fallback_response: the template answer, which names "market
\* APIs" as the source of its figures, or an apology
format_fallback_response(data, parameters) ==
  With(GetOr(data, "oil_data", [stats |-> None, latest_price |-> None]),
       LAMBDA oil_data :
  With(oil_data.stats, LAMBDA stats :
    IF stats = None \/ oil_data.latest_price = None
      THEN [template |-> "no_market_data"]
    ELSE [template |-> "market_trend",
          start_date |-> parameters.start_date,
          end_date |-> parameters.end_date,
          trend |-> FallbackTrend(stats[1].percent_change),
          min |-> stats[1].min, max |-> stats[1].max,
          volatility |-> stats[1].volatility,
          percent_change |-> stats[1].percent_change,
          retail |-> IF Has(stats[1], "retail_price")
                       THEN Some(stats[1].retail_price) ELSE None,
          latest_price |-> oil_data.latest_price[1],
          source |-> "market APIs"]))

\* generate_polished_response; llm is the outcome of the call
generate_polished_response(data, parameters, llm_key, llm) ==
  IF ~llm_key \/ llm \in LlmFailures
    THEN format_fallback_response(data, parameters)
  ELSE [template |-> "llm"]

\* get_fallback_response: the answer of ask_llm without the LLM; it names
\* the EIA API as the source whenever there is a latest price
get_fallback_response(question, oil_data, trend, stats, parameters) ==
  With(Lower(question), LAMBDA question_lower :
    LET has(w) == Found(Lit(w), question_lower)
    IN [answer |->
          [body |->
             IF has(<<"o","i","l">>) \/ has(<<"p","r","i","c","e">>)
                  \/ has(<<"b","r","e","n","t">>)
               THEN IF stats # None
                      THEN [template |-> "oil_trend", trend |-> trend,
                            retail |->
                              IF HasCountry(parameters) /\ oil_data # <<>>
                                THEN With(COUNTRY_FUEL_DATA(parameters.location),
                                          LAMBDA cd :
                                       Some(RetailCents(
                                              LatestUsd(oil_data), cd,
                                              IF cd.currency = "EUR" THEN 11000
                                              ELSE IF cd.currency = "GBP"
                                                THEN 8000
                                              ELSE RateOne)))
                                ELSE None]
                    ELSE [template |-> "oil_canned", trend |-> trend]
             ELSE IF has(<<"f","x">>)
                       \/ has(<<"c","u","r","r","e","n","c","y">>)
                       \/ has(<<"e","x","c","h","a","n","g","e">>)
               THEN [template |-> "fx_canned"]
             ELSE IF stats # None THEN [template |-> "general_trend"]
             ELSE [template |-> "general_canned"],
           latest_price |-> LatestPrice(oil_data),
           source |-> IF oil_data # <<>> THEN "EIA API" ELSE "none"],
        oil_data |-> [recent_prices |-> RecentPrices(oil_data),
                      latest_price |-> LatestPrice(oil_data),
                      stats |-> stats, parameters |-> parameters]])

\* the part of ask_llm before the key is looked at: parameters, the oil
\* series, its statistics and the two exchange-rate fetches.  failed says
\* that an exception sent the request to the handler "except Exception".
ask_llm_fetch(question, env) ==
  With(AliasCountry(Lower(question), 1), LAMBDA country :
  With(BackendDates(question, env.today), LAMBDA dates :
  With(IF country # <<>> THEN Put(dates, "location", country) ELSE dates,
       LAMBDA parameters :
  With(fetch_oil_prices(Some(parameters.start_date),
                        Some(parameters.end_date), env), LAMBDA f :
  With(f.r.value, LAMBDA oil_data :
  With(analyze_price_data(oil_data), LAMBDA analysis :
  With(COUNTRY_FUEL_DATA(parameters.location).currency, LAMBDA cur :
  With(HasCountry(parameters) /\ oil_data # <<>> /\ cur # "USD",
       LAMBDA retailFx :
  With(fetch_fx_rates(<<cur>>, env), LAMBDA fx1 :
  With(retailFx /\ cur \in DOMAIN fx1.value /\ fx1.value[cur] = NullRate,
       LAMBDA nullRate :
    [oil_data |-> oil_data, trend |-> analysis.trend,
     stats |-> analysis.stats, parameters |-> parameters,
     origin |-> f.origin, failed |-> nullRate,
     calls |->
       [eia |-> f.eia, mock |-> f.mock, weather |-> 0,
        oxr |-> (IF retailFx THEN fx1.oxr ELSE 0)
                  + (IF nullRate THEN 0
                     ELSE fetch_fx_rates(<<"EUR", "JPY", "GBP", "CAD">>,
                                         env).oxr)]]))))))))))

\* the rest of ask_llm: the key, the call and the answer
ask_llm_answer(question, ctx, llm_key, llm) ==
  IF ctx.failed \/ ~llm_key \/ llm \in LlmFailures
    THEN get_fallback_response(question, ctx.oil_data, ctx.trend, ctx.stats,
                               ctx.parameters)
  ELSE [answer |-> [body |-> [template |-> "llm"],
                    latest_price |-> LatestPrice(ctx.oil_data),
                    source |-> "none"],
        oil_data |-> [recent_prices |-> RecentPrices(ctx.oil_data),
                      latest_price |-> LatestPrice(ctx.oil_data),
                      stats |-> ctx.stats, parameters |-> ctx.parameters]]

(***************************************************************************)
(* FastAPI endpoints (src/backend/main.py)                                 *)
(***************************************************************************)
\* fuel_price(country): the answer is the result, or the HTTPException
\* with its status; an exception that is no HTTPException becomes the
\* status 500
fuel_price(country, env) ==
  With(fetch_oil_prices(Some(isoformat(env.today - 1)),
                        Some(isoformat(env.today)), env), LAMBDA f :
  With(f.r.value, LAMBDA oil_data :
  With(Lower(country), LAMBDA country_lower :
    LET answer(a, oxr) ==
          [answer |-> a, origin |-> f.origin,
           calls |-> [eia |-> f.eia, mock |-> f.mock, weather |-> 0,
                      oxr |-> oxr]]
    IN IF oil_data = <<>>
         THEN answer([template |-> "http_exception", status |-> 404,
                 detail |-> "no_oil_data"], 0)
       ELSE IF ~oil_data[Len(oil_data)].numeric
         THEN answer([template |-> "http_exception", status |-> 400,
                 detail |-> "invalid_oil_data"], 0)
       ELSE IF ~InRegistry(country_lower)
         THEN answer([template |-> "http_exception", status |-> 404,
                 detail |-> "country_not_supported"], 0)
       ELSE
         With(COUNTRY_FUEL_DATA(country_lower), LAMBDA country_data :
         With(fetch_fx_rates(<<country_data.currency>>, env), LAMBDA fx :
         With(IF country_data.currency # "USD"
                   /\ country_data.currency \in DOMAIN fx.value
                THEN fx.value[country_data.currency]
                ELSE RateOne, LAMBDA fx_rate :
         With(IF country_data.currency # "USD" THEN fx.oxr ELSE 0,
              LAMBDA oxr :
           IF fx_rate = NullRate
             THEN answer([template |-> "http_exception", status |-> 500,
                         detail |-> "TypeError"], oxr)
           ELSE answer([template |-> "fuel_price", status |-> 200,
                        country |-> country_data.local_name,
                        price |-> RetailCents(oil_data[Len(oil_data)].value,
                                              country_data, fx_rate),
                        unit |-> country_data.price_unit,
                        currency |-> country_data.currency,
                        primary_fuel |-> country_data.common_fuel,
                        brent_price_usd |-> oil_data[Len(oil_data)].value,
                        fx_rate |-> fx_rate,
                        date |-> oil_data[Len(oil_data)].date], oxr))))))))

(***************************************************************************)
(* Inputs                                                                  *)
(***************************************************************************)
\* datetime.date.today().toordinal(): 2026-11-03
Today == 739923

\* the states of the random generator that are explored
MaxSeed == 1

\* the queries put to the entry points
Q ==
  [fuel_germany |->
     \* "What are current fuel prices in Germany?"
     <<"W","h","a","t"," ","a","r","e"," ","c","u","r","r","e","n","t"," ",
       "f","u","e","l"," ","p","r","i","c","e","s"," ","i","n"," ","G","e",
       "r","m","a","n","y","?">>,
   last30 |->
     \* "oil prices for the last 30 days"
     <<"o","i","l"," ","p","r","i","c","e","s"," ","f","o","r"," ","t","h",
       "e"," ","l","a","s","t"," ","3","0"," ","d","a","y","s">>,
   hello |->
     \* "hello there"
     <<"h","e","l","l","o"," ","t","h","e","r","e">>,
   years |->
     \* "oil prices for the last 3000 years"
     <<"o","i","l"," ","p","r","i","c","e","s"," ","f","o","r"," ","t","h",
       "e"," ","l","a","s","t"," ","3","0","0","0"," ","y","e","a","r","s">>,
   may5 |->
     \* "oil price on May 5, 2024"
     <<"o","i","l"," ","p","r","i","c","e"," ","o","n"," ","M","a","y"," ",
       "5",","," ","2","0","2","4">>,
   today_germany |->
     \* "oil price 0 days ago in Germany"
     <<"o","i","l"," ","p","r","i","c","e"," ","0"," ","d","a","y","s"," ",
       "a","g","o"," ","i","n"," ","G","e","r","m","a","n","y">>,
   reversed |->
     \* "oil prices from 2024-05-10 to 2024-05-01"
     <<"o","i","l"," ","p","r","i","c","e","s"," ","f","r","o","m"," ","2",
       "0","2","4","-","0","5","-","1","0"," ","t","o"," ","2","0","2","4",
       "-","0","5","-","0","1">>,
   fx |->
     \* "exchange rate for EUR"
     <<"e","x","c","h","a","n","g","e"," ","r","a","t","e"," ","f","o","r",
       " ","E","U","R">>,
   weather |->
     \* "weather in London"
     <<"w","e","a","t","h","e","r"," ","i","n"," ","L","o","n","d","o","n">>,
   range |->
     \* "Brent crude from May 2024 to Jun 2024"
     <<"B","r","e","n","t"," ","c","r","u","d","e"," ","f","r","o","m"," ",
       "M","a","y"," ","2","0","2","4"," ","t","o"," ","J","u","n"," ","2",
       "0","2","4">>,
   america |->
     \* "gas prices in America"
     <<"g","a","s"," ","p","r","i","c","e","s"," ","i","n"," ","A","m","e",
       "r","i","c","a">>,
   england |->
     \* "petrol prices past 2 weeks in England"
     <<"p","e","t","r","o","l"," ","p","r","i","c","e","s"," ","p","a","s",
       "t"," ","2"," ","w","e","e","k","s"," ","i","n"," ","E","n","g","l",
       "a","n","d">>,
   feb30 |->
     \* "fuel price from 2/30/2024 to May 2024"
     <<"f","u","e","l"," ","p","r","i","c","e"," ","f","r","o","m"," ","2",
       "/","3","0","/","2","0","2","4"," ","t","o"," ","M","a","y"," ","2",
       "0","2","4">>,
   days_ago |->
     \* "brent 12 days ago"
     <<"b","r","e","n","t"," ","1","2"," ","d","a","y","s"," ","a","g","o">>,
   iso_day |->
     \* "oil price for 2024-05-01"
     <<"o","i","l"," ","p","r","i","c","e"," ","f","o","r"," ","2","0","2",
       "4","-","0","5","-","0","1">>,
   united_states |->
     \* "gas prices in United States"
     <<"g","a","s"," ","p","r","i","c","e","s"," ","i","n"," ","U","n","i",
       "t","e","d"," ","S","t","a","t","e","s">>,
   us |->
     \* "gas prices in US"
     <<"g","a","s"," ","p","r","i","c","e","s"," ","i","n"," ","U","S">>,
   reversed_months |->
     \* "oil from Jun 2024 to May 2024 in Germany"
     <<"o","i","l"," ","f","r","o","m"," ","J","u","n"," ","2","0","2","4",
       " ","t","o"," ","M","a","y"," ","2","0","2","4"," ","i","n"," ","G",
       "e","r","m","a","n","y">>,
   two_intents |->
     \* "weather and exchange rate"
     <<"w","e","a","t","h","e","r"," ","a","n","d"," ","e","x","c","h","a",
       "n","g","e"," ","r","a","t","e">>]

\* the queries of the model
Queries ==
  {Q.reversed_months, Q.fuel_germany, Q.last30, Q.hello, Q.years,
   Q.may5, Q.today_germany, Q.reversed, Q.fx,
   Q.weather, Q.range, Q.america, Q.england,
   Q.feb30, Q.days_ago, Q.iso_day, Q.united_states, Q.us,
   Q.two_intents}

\* the environment of one fetch: which credentials are configured, what
\* each collaborator answers if it is called, the clock and the generator
Environments(k) ==
  [eia_key : {k.eia_key}, oxr_key : {k.oxr_key}, weather_key : {k.weather_key},
   eia : IF k.eia_key
           THEN Failures \cup {"ok3", "ok1", "empty", "malformed", "bad_value",
                               "no_response"}
           ELSE {"none"},
   oxr : IF k.oxr_key THEN Failures \cup {"ok", "no_rates", "null_rate"}
         ELSE {"none"},
   weather : IF k.weather_key
               THEN Failures \cup {"ok", "empty_object", "empty_list"}
               ELSE {"none"},
   today : {Today}, seed : 0..MaxSeed]

\* the answer that stands for "not observed"
SetMinStr(configured) == IF configured THEN "http_error" ELSE "none"

\* the environments that differ in something a fetch for this intent and
\* these parameters can observe
RelevantEnvironments(k, intent, parameters) ==
  {e \in Environments(k) :
     /\ (intent # "oil_price") => (e.eia = SetMinStr(k.eia_key) /\ e.seed = 0)
     \* three good points never reach the generator
     /\ (e.eia = "ok3") => e.seed = 0
     /\ (intent \notin {"oil_price", "fx_rates"}
           \/ (intent = "oil_price" /\ ~HasCountry(parameters)))
          => e.oxr = SetMinStr(k.oxr_key)
     /\ (intent # "weather") => e.weather = SetMinStr(k.weather_key)}

(***************************************************************************)
(* DynamicDataModel.process_query (src/app.py:818-846) as a state machine  *)
(***************************************************************************)
VARIABLES
  keys,      \* API_KEYS and the module-level keys: what is configured
  pc,        \* position of the request in its entry point
  entry,     \* the entry point that serves the request
  query,     \* the text of the request
  analysis,  \* query_analysis, or the parameters of the backend parser
  fetched,   \* the result of the fetch step
  origin,    \* where the fetched data really comes from
  env,       \* the environment the fetch step ran in
  llm,       \* the outcome of the last call of the LLM
  calls,     \* calls of each collaborator and runs of the oil generator
  response,  \* the response, once rendered
  steps      \* the steps of the pipeline that have run, in order

vars ==
  <<keys, pc, entry, query, analysis, fetched, origin, env, llm, calls,
    response, steps>>

NoCalls == [eia |-> 0, oxr |-> 0, weather |-> 0, mock |-> 0]

Init ==
  /\ keys \in [eia_key : BOOLEAN, oxr_key : BOOLEAN, weather_key : BOOLEAN,
               llm_key : BOOLEAN]
  /\ pc = "idle"
  /\ entry = "none"
  /\ query = <<>>
  /\ analysis = None
  /\ fetched = None
  /\ origin = "none"
  /\ env = None
  /\ llm = "none"
  /\ calls = NoCalls
  /\ response = None
  /\ steps = <<>>

\* a request arrives at entry point e with text q
Begin(e, q, first) ==
  /\ pc = "idle"
  /\ pc' = first
  /\ entry' = e
  /\ query' = q
  /\ analysis' = None
  /\ fetched' = None
  /\ origin' = "none"
  /\ env' = None
  /\ llm' = "none"
  /\ calls' = NoCalls
  /\ response' = None
  /\ steps' = <<>>
  /\ UNCHANGED keys

\* a caller hands a query to process_query
Submit(q) == Begin("process_query", q, "analyze")

\* step 1 of process_query: analyze_query, outside any try block
Analyze ==
  /\ entry = "process_query"
  /\ pc = "analyze"
  /\ \E a \in {analyze_query(query, Today)} :
       /\ analysis' = Some(a)
       /\ pc' = IF a.raised THEN "raised" ELSE "fetch"
  /\ steps' = Append(steps, "analyze")
  /\ UNCHANGED <<keys, entry, query, fetched, origin, env, llm, calls,
                 response>>

\* step 2 of process_query: fetch_data
Fetch ==
  /\ entry = "process_query"
  /\ pc = "fetch"
  /\ \E e \in RelevantEnvironments(keys, analysis[1].intent,
                                   analysis[1].parameters) :
       \E f \in {fetch_data(analysis[1].intent, analysis[1].parameters, e)} :
         /\ fetched' = Some(f.data)
         /\ origin' = f.origin
         /\ env' = Some(e)
         /\ calls' = f.calls
  /\ pc' = "render"
  /\ steps' = Append(steps, "fetch")
  /\ UNCHANGED <<keys, entry, query, analysis, llm, response>>

\* step 3 of process_query: generate_response, outside any try block
Render ==
  /\ entry = "process_query"
  /\ pc = "render"
  /\ \E r \in {generate_response(analysis[1], fetched[1])} :
       IF r.raised
         THEN /\ pc' = "raised"
              /\ response' = None
         ELSE /\ pc' = "done"
              /\ response' = Some(r.value)
  /\ steps' = Append(steps, "render")
  /\ UNCHANGED <<keys, entry, query, analysis, fetched, origin, env, llm,
                 calls>>

\* the outcomes of a call of the LLM, if the key is configured
LlmOutcomes(k, answers) ==
  IF k.llm_key THEN LlmFailures \cup answers ELSE {"none"}

\* a caller hands a question to process_market_query
SubmitMarket(q) == Begin("process_market_query", q, "parse")

\* step 1 of process_market_query: parse_query_with_llm
Parse ==
  /\ entry = "process_market_query"
  /\ pc = "parse"
  /\ \E o \in LlmOutcomes(keys, {"agree", "unknown", "null_dates",
                                "not_json_content"}) :
       /\ analysis' = Some(parse_query_with_llm(query, Today, keys.llm_key, o))
       /\ llm' = o
  /\ pc' = "fetch"
  /\ steps' = Append(steps, "analyze")
  /\ UNCHANGED <<keys, entry, query, fetched, origin, env, calls, response>>

\* the environments that differ in something the fetches of
\* process_market_query can observe
MarketEnvironments(k, parameters) ==
  {e \in Environments(k) :
     /\ e.weather = SetMinStr(k.weather_key)
     /\ (parameters.intent \notin {"oil_price", "unknown"})
          => (e.eia = SetMinStr(k.eia_key) /\ e.seed = 0)
     \* a list with a well-formed item, and an empty list, are returned
     \* without the generator
     /\ (e.eia \in {"ok3", "ok1", "empty", "bad_value"}) => e.seed = 0
     /\ (parameters.intent # "fx_rates" /\ ~HasCountry(parameters))
          => e.oxr = SetMinStr(k.oxr_key)}

\* step 2 of process_market_query: the fetches; an exception ends the
\* request with the answer of the handler
MarketFetch ==
  /\ entry = "process_market_query"
  /\ pc = "fetch"
  /\ \E e \in MarketEnvironments(keys, analysis[1]) :
       \E m \in {market_fetch(analysis[1], e)} :
          /\ calls' = m.calls
          /\ origin' = m.origin
          /\ env' = Some(e)
          /\ IF m.r.raised
               THEN /\ pc' = "done"
                    /\ fetched' = None
                    /\ response' =
                         Some([answer |-> [template |-> "error",
                                           error |-> m.r.error],
                               data |-> EmptyDict,
                               parameters |-> [original_query |-> query]])
               ELSE /\ pc' = "render"
                    /\ fetched' = Some(m.r.value)
                    /\ response' = None
  /\ steps' = Append(steps, "fetch")
  /\ UNCHANGED <<keys, entry, query, analysis, llm>>

\* step 3 of process_market_query: generate_polished_response
MarketRespond ==
  /\ entry = "process_market_query"
  /\ pc = "render"
  /\ \E o \in LlmOutcomes(keys, {"ok"}) :
       /\ response' = Some([answer |-> generate_polished_response(
                                         fetched[1], analysis[1],
                                         keys.llm_key, o),
                            data |-> fetched[1],
                            parameters |-> analysis[1]])
       /\ llm' = o
  /\ pc' = "done"
  /\ steps' = Append(steps, "render")
  /\ UNCHANGED <<keys, entry, query, analysis, fetched, origin, env, calls>>

\* the environments that differ in something ask_llm can observe
AskEnvironments(k) ==
  {e \in Environments(k) :
     /\ e.weather = SetMinStr(k.weather_key)
     /\ (e.eia \in {"ok3", "ok1", "empty", "bad_value"}) => e.seed = 0}

\* a caller hands a question to ask_llm
SubmitAsk(q) == Begin("ask_llm", q, "fetch")

\* ask_llm up to the look at the key
AskFetch ==
  /\ entry = "ask_llm"
  /\ pc = "fetch"
  /\ \E e \in AskEnvironments(keys) :
       \E c \in {ask_llm_fetch(query, e)} :
          /\ fetched' = Some(c)
          /\ analysis' = Some(c.parameters)
          /\ origin' = c.origin
          /\ env' = Some(e)
          /\ calls' = c.calls
  /\ pc' = "render"
  /\ steps' = <<"analyze", "fetch">>
  /\ UNCHANGED <<keys, entry, query, llm, response>>

\* ask_llm from the look at the key on
AskAnswer ==
  /\ entry = "ask_llm"
  /\ pc = "render"
  /\ \E o \in LlmOutcomes(keys, {"ok"}) :
       /\ response' = Some(ask_llm_answer(query, fetched[1], keys.llm_key, o))
       /\ llm' = o
  /\ pc' = "done"
  /\ steps' = Append(steps, "render")
  /\ UNCHANGED <<keys, entry, query, analysis, fetched, origin, env, calls>>

\* a caller requests GET /api/fuel_price?country=c
SubmitFuel(c) == Begin("fuel_price", c, "fetch")

\* the handler fuel_price
FuelPrice ==
  /\ entry = "fuel_price"
  /\ pc = "fetch"
  /\ \E e \in AskEnvironments(keys) :
       \E r \in {fuel_price(query, e)} :
         /\ env' = Some(e)
         /\ origin' = r.origin
         /\ calls' = r.calls
         /\ response' = Some([answer |-> r.answer])
  /\ steps' = <<"fetch">>
  /\ pc' = "done"
  /\ UNCHANGED <<keys, entry, query, analysis, fetched, llm>>

\* the caller has the result, or the exception, of its request
Finish ==
  /\ pc \in {"done", "raised"}
  /\ pc' = "idle"
  /\ UNCHANGED <<keys, entry, query, analysis, fetched, origin, env, llm,
                 calls, response, steps>>

\* the questions put to the two entry points of mcp_tools.py
MarketQueries ==
  {Q.reversed_months, Q.fuel_germany, Q.last30, Q.hello, Q.fx, Q.weather,
   Q.range, Q.england, Q.us}

Next ==
  \/ \E q \in Queries : Submit(q)
  \/ Analyze
  \/ Fetch
  \/ Render
  \/ \E q \in MarketQueries : SubmitMarket(q)
  \/ Parse
  \/ MarketFetch
  \/ MarketRespond
  \/ \E q \in MarketQueries : SubmitAsk(q)
  \/ AskFetch
  \/ AskAnswer
  \/ \E c \in {<<"G","e","r","m","a","n","y">>, <<"U","S","A">>, uk,
                <<"F","r","a","n","c","e">>} : SubmitFuel(c)
  \/ FuelPrice
  \/ Finish

Spec == Init /\ [][Next]_vars

(***************************************************************************)
(* Properties                                                              *)
(***************************************************************************)
\* a request served by process_query
InProcessQuery == entry = "process_query"

\* a request served by process_market_query
InMarketQuery == entry = "process_market_query"

\* C1: no request ends with an exception that reaches the caller of
\* process_query or of process_market_query.
C1_NeverRaises == pc # "raised"

\* C2: once process_query is done with a query whose intent is unknown, the
\* response is the clarifying message.
C2_UnknownIsClarified ==
  (InProcessQuery /\ pc = "done" /\ analysis[1].intent = "unknown")
    => response[1].text.template = "clarify"

\* the live call of the fetch for this intent failed: an exception, or a
\* payload without the expected structure
LiveCallFailed(intent, e) ==
  \/ /\ intent \in {"oil_price", "unknown"}
     /\ e.eia_key
     /\ e.eia \in Failures \cup {"no_response", "malformed"}
  \/ /\ intent = "fx_rates"
     /\ e.oxr_key
     /\ e.oxr \in Failures \cup {"no_rates"}
  \/ /\ intent = "weather"
     /\ InProcessQuery
     /\ e.weather_key
     /\ e.weather \in Failures \cup {"empty_object", "empty_list"}

\* C3: after a fetch whose live call failed, the data is the data of the
\* synthetic generator, and no error is in the result.
C3_LiveFailureFallsBack ==
  ((InProcessQuery \/ InMarketQuery) /\ env # None
     /\ LiveCallFailed(analysis[1].intent, env[1]))
    => /\ origin = "synthetic"
       /\ fetched # None
       /\ ~Has(fetched[1], "error")

\* C4: a price series that a fetch returns as its result is not empty.
C4_SeriesNeverEmpty ==
  /\ (InProcessQuery /\ fetched # None
        /\ analysis[1].intent = "oil_price" /\ ~Has(fetched[1], "error"))
       => fetched[1].data # <<>>
  /\ (InMarketQuery /\ fetched # None /\ Has(fetched[1], "oil_data"))
       => fetched[1].oil_data.recent_prices # <<>>

\* the source that a response names for its figures, "none" if it names
\* none
NamedSource(e, r) ==
  IF e = "process_query"
    THEN IF r.text.template \in {"oil_trend", "oil_latest"}
           THEN r.text.head.source
         ELSE IF r.text.template \in {"fx_rates", "weather"}
           THEN r.text.source
         ELSE "none"
  ELSE IF e = "ask_llm" THEN r.answer.source
  ELSE IF r.answer.template = "market_trend" THEN r.answer.source
  ELSE "none"

\* C5: a response built from synthetic data names no API as the source of
\* its figures, and a response of process_query built from synthetic data
\* names the synthetic source.
C5_SyntheticNeverNamedLive ==
  (pc = "done" /\ response # None /\ origin = "synthetic")
    => /\ NamedSource(entry, response[1])
            \notin {"EIA API", "Open Exchange Rates API",
                    "OpenWeatherMap API", "market APIs"}
       /\ InProcessQuery
            => NamedSource(entry, response[1]) \in {"Mock data", "none"}

\* C6: a request that has ended has run analyze, fetch and render once
\* each, in this order, with at most one call of each collaborator and at
\* most one run of the synthetic generator.
C6_OnePassOneFallback ==
  ((InProcessQuery \/ InMarketQuery) /\ pc \in {"done", "raised"})
    => /\ steps = <<"analyze", "fetch", "render">>
       /\ calls.eia <= 1
       /\ calls.oxr <= 1
       /\ calls.weather <= 1
       /\ calls.mock <= 1

\* C7: when the fetches of process_market_query have produced data and the
\* LLM fails in the response step, the answer is the template answer built
\* from the data, not an apology or an error.
C7_LlmFailureGivesTemplate ==
  (InMarketQuery /\ pc = "done" /\ fetched # None
     /\ llm \in LlmFailures \cup {"none"}
     /\ \/ Has(fetched[1], "fx_data")
        \/ (Has(fetched[1], "oil_data")
              /\ fetched[1].oil_data.latest_price # None))
    => response[1].answer.template = "market_trend"

\* the query has none of the temporal expressions of PARAMETER_PATTERNS
NoTemporalExpression(q) ==
  LET ex == _extract_parameters(q)
  IN ~(Has(ex, "date_range") \/ Has(ex, "single_date")
         \/ Has(ex, "days_ago") \/ Has(ex, "timeframe"))

\* C8: the parameters of an analysis hold a date, or a start and an end
\* date, each a calendar date in ISO form; without a temporal expression
\* the window is today - 30 days to today.
C8_DatesResolved ==
  (InProcessQuery /\ analysis # None /\ ~analysis[1].raised)
    => LET p == analysis[1].parameters
       IN /\ \/ Has(p, "date") /\ IsIsoDate(p.date)
             \/ /\ Has(p, "start_date") /\ IsIsoDate(p.start_date)
                /\ Has(p, "end_date") /\ IsIsoDate(p.end_date)
          /\ NoTemporalExpression(query)
               => /\ Has(p, "start_date") /\ Has(p, "end_date")
                  /\ p.start_date = isoformat(Today - 30)
                  /\ p.end_date = isoformat(Today)

\* C9: "What are current fuel prices in Germany?" is analysed to intent
\* oil_price and location germany.
C9_FuelPricesInGermany ==
  (InProcessQuery /\ query = Q.fuel_germany /\ analysis # None)
    => /\ analysis[1].intent = "oil_price"
       /\ Has(analysis[1].parameters, "location")
       /\ analysis[1].parameters.location = germany

\* the request for "oil prices for the last 30 days" is done and no key of
\* the oil-price API is configured
Last30Done ==
  InProcessQuery /\ query = Q.last30 /\ ~keys.eia_key /\ pc = "done"

\* C10: "oil prices for the last 30 days" without a key of the oil-price
\* API gives a response with a line chart of 31 points, the first of
\* today - 30 days and the last of today, that names the synthetic source.
C10_Last30DaysChart ==
  Last30Done
    => /\ response # None
       /\ response[1].data # None
       /\ LET v == response[1].data[1].visualization
          IN /\ v.type = "line"
             /\ Len(v.x_axis) = 31
             /\ Len(v.y_axis) = 31
             /\ v.x_axis[1] = isoformat(Today - 30)
             /\ v.x_axis[31] = isoformat(Today)
       /\ response[1].text.head.source = "Mock data"
       /\ origin = "synthetic"

\* the request of C10 is done with its response
C10_Witness == Last30Done /\ response # None /\ calls.mock = 1

(***************************************************************************)
(* The components on inputs of their own: a caller hands an input to one   *)
(* function and has its result.  entry names the function, query is the   *)
(* input and response the result.                                          *)
(***************************************************************************)
\* the longest window of the generators, in days after the start date
MaxSpan == 3

\* the longest series handed to the statistics
MaxLen == 3

\* a caller has an input for one of the components
ComponentInit ==
  /\ keys = [eia_key |-> FALSE, oxr_key |-> FALSE, weather_key |-> FALSE,
             llm_key |-> FALSE]
  /\ pc = "input"
  /\ \/ \* a window start <= end and the state of the random generator;
        \* the windows start at ends of months and of years, at a leap day
        /\ entry = "generate_mock_oil_data"
        /\ query \in
             {[start_date |-> isoformat(s), end_date |-> isoformat(s + d),
               seed |-> k] :
                s \in {ToOrdinal(2024, 2, 27), ToOrdinal(2023, 2, 27),
                       ToOrdinal(2023, 12, 30), ToOrdinal(2024, 4, 29),
                       ToOrdinal(2024, 5, 1), Today - 1},
                d \in 0..MaxSpan, k \in 0..MaxSeed}
     \/ \* a series of items; the value of an item is a price in cents
        \* or a string that float() rejects
        /\ entry = "analyze_price_data"
        /\ query \in
             UNION {[1..n -> [numeric : {TRUE}, value : {24990, 25000, 25001,
                                                         25010, 26251}]
                               \cup {[numeric |-> FALSE, value |-> 0]}] :
                      n \in 0..MaxLen}
     \/ \* a benchmark price in cents, a location and a rate USD to local
        /\ entry = "_compute_retail_price"
        /\ query \in [brent : {1, 7995, 8000, 8550, 12345},
                       country : {germany, usa, uk, <<"f","r","a","n","c","e">>},
                       fx : {RateOne, 9200, 7900, 9134, 11000, 8000}]
     \/ \* a date string in one of the supported formats: YYYY-MM-DD,
        \* M/D/Y and a month name with a year
        /\ entry = "_normalize_date"
        /\ query \in
             {isoformat(n) : n \in {ToOrdinal(2024, 2, 29), Today,
                                    ToOrdinal(2023, 12, 31)}}
             \cup {<<"2","0","2","4","-","1","3","-","4","5">>}
             \cup {ZeroPad(m, w) \o <<"/">> \o ZeroPad(d, w) \o <<"/">> \o y :
                     m \in {1, 5, 12}, d \in {1, 9, 31}, w \in {1, 2},
                     y \in {<<"2","4">>, <<"2","0","2","4">>}}
             \cup {IF low THEN Lower(Months[j] \o t \o <<" ">> \o y)
                   ELSE Months[j] \o t \o <<" ">> \o y :
                     j \in DOMAIN Months, t \in {<<>>, <<".">>, <<"e">>},
                     low \in BOOLEAN,
                     y \in {<<"2","0","2","3">>, <<"2","0","2","4">>}}
     \/ \* a question with a range from a month and year to a month and
        \* year
        /\ entry = "analyze_query"
        /\ query \in
             {[text |-> <<"o","i","l"," ","f","r","o","m"," ">>
                          \o Months[sm] \o <<" ">> \o ZeroPad(sy, 4)
                          \o <<" ","t","o"," ">>
                          \o Months[em] \o <<" ">> \o ZeroPad(ey, 4),
               start_month |-> sm, start_year |-> sy,
               end_month |-> em, end_year |-> ey] :
                sm \in DOMAIN Months, sy \in {2023, 2024, 2100},
                em \in DOMAIN Months, ey \in {2023, 2024, 2100}}
     \/ \* a question with some of the four temporal forms, in the order
        \* of their precedence or against it
        /\ entry = "analyze_query"
        /\ query \in
             {[text |->
                 LET T(n, t) == IF n \in fs THEN t ELSE <<>>
                     range == T("date_range",
                          <<" ","f","r","o","m"," ","2","0","2","4","-","0",
                            "5","-","0","1"," ","t","o"," ","2","0","2","4",
                            "-","0","5","-","1","0">>)
                     single == T("single_date",
                          <<" ","o","n"," ","2","0","2","4","-","0","6","-",
                            "0","1">>)
                     ago == T("days_ago",
                          <<" ","5"," ","d","a","y","s"," ","a","g","o">>)
                     last == T("timeframe",
                          <<" ","l","a","s","t"," ","2"," ","w","e","e","k",
                            "s">>)
                 IN <<"o","i","l">>
                      \o (IF up THEN range \o single \o ago \o last
                                ELSE last \o ago \o single \o range),
               forms |-> fs] :
                fs \in SUBSET {"date_range", "single_date", "days_ago",
                               "timeframe"},
                up \in BOOLEAN}
     \/ \* a question with a range between two dates, each an ISO date,
        \* a date M/D/Y or a month and year
        /\ entry = "analyze_query"
        /\ query \in
             {[text |-> <<"o","i","l"," ">> \o w.pre \o <<" ">> \o x
                          \o <<" ">> \o w.mid \o <<" ">> \o y,
               from |-> x, to |-> y] :
                w \in {[pre |-> <<"f","r","o","m">>, mid |-> <<"t","o">>],
                       [pre |-> <<"b","e","t","w","e","e","n">>,
                        mid |-> <<"a","n","d">>]},
                x \in {<<"2","0","2","4","-","0","5","-","0","3">>,
                       <<"5","/","3","/","2","0","2","4">>,
                       <<"M","a","y"," ","2","0","2","4">>},
                y \in {<<"2","0","2","4","-","0","6","-","1","0">>,
                       <<"6","/","1","0","/","2","0","2","4">>,
                       <<"J","u","n"," ","2","0","2","4">>}}
  /\ analysis = None
  /\ fetched = None
  /\ origin = "none"
  /\ env = None
  /\ llm = "none"
  /\ calls = NoCalls
  /\ response = None
  /\ steps = <<>>

\* the function named by entry is applied to the input and returns r
Applied(r) ==
  /\ pc = "input"
  /\ pc' = "applied"
  /\ response' = Some(r)
  /\ UNCHANGED <<keys, entry, query, analysis, fetched, origin, env, llm,
                 calls, steps>>

\* the series of the two generators for one window: data of
\* DataFetcher._generate_mock_oil_data (src/app.py:440-459) and the list
\* of generate_mock_oil_data (src/backend/services/data.py:20-38)
Generate ==
  /\ entry = "generate_mock_oil_data"
  /\ Applied([app |-> _generate_mock_oil_data(
                        [start_date |-> query.start_date,
                         end_date |-> query.end_date], Today, query.seed),
              backend |-> generate_mock_oil_data(Some(query.start_date),
                                                 Some(query.end_date),
                                                 query.seed)])

\* the statistics of one series: DataFetcher._calculate_statistics
\* (src/app.py:594-617), where min() or the subtraction raises TypeError
\* for a string among two or more values, and analyze_price_data
Statistics ==
  /\ entry = "analyze_price_data"
  /\ Applied([app |->
                IF Len(query) >= 2 /\ \E k \in DOMAIN query : ~query[k].numeric
                  THEN Raise("TypeError")
                  ELSE Return(_calculate_statistics(query)),
              backend |-> analyze_price_data(query)])

\* the retail price of one benchmark price: DataFetcher._compute_retail_price
\* (src/app.py:329-356), which receives no rate, and the computation of
\* process_market_query (src/backend/services/mcp_tools.py:852-868) and of
\* fuel_price (src/backend/main.py:137-146), which multiplies by fx_rate
Retail ==
  /\ entry = "_compute_retail_price"
  /\ Applied([app |-> _compute_retail_price(query.brent, query.country),
              backend |->
                IF InRegistry(query.country)
                  THEN Some(RetailCents(query.brent,
                                        COUNTRY_FUEL_DATA(query.country),
                                        query.fx))
                  ELSE None])

\* QueryProcessor._normalize_date of one date string, and of its result
Normalize ==
  /\ entry = "_normalize_date"
  /\ Applied([once |-> _normalize_date(query),
              twice |-> _normalize_date(_normalize_date(query))])

\* the parameters of one question with a date range, of
\* QueryProcessor.analyze_query and of parse_query_fallback
Range ==
  /\ entry = "analyze_query"
  /\ Applied([app |-> analyze_query(query.text, Today),
              backend |-> parse_query_fallback(query.text, Today)])

ComponentNext ==
  \/ Generate
  \/ Statistics
  \/ Retail
  \/ Normalize
  \/ Range

Components == ComponentInit /\ [][ComponentNext]_vars

\* series has one point for each day from start to end, in this order
OnePerDay(series, start, end) ==
  /\ Len(series) = (fromisoformat(end) - fromisoformat(start)) + 1
  /\ series[1].date = start
  /\ series[Len(series)].date = end
  /\ \A j \in 1..(Len(series) - 1) :
       fromisoformat(series[j + 1].date) = fromisoformat(series[j].date) + 1

\* the generators have returned for a window
Generated == entry = "generate_mock_oil_data" /\ pc = "applied"

\* C11: for every pair of valid ISO dates start <= end, the synthetic oil
\* series has (end - start in days) + 1 points, one for each calendar day,
\* in ascending order, the first of start and the last of end.
C11_SeriesLength ==
  Generated
    => /\ ~response[1].app.raised
       /\ OnePerDay(response[1].app.value.data, query.start_date,
                    query.end_date)
       /\ ~response[1].backend.raised
       /\ OnePerDay(response[1].backend.value, query.start_date,
                    query.end_date)

\* a window over the leap day of 2024 has been generated
C11_Witness ==
  /\ Generated
  /\ query.start_date = isoformat(ToOrdinal(2024, 2, 27))
  /\ query.end_date = isoformat(ToOrdinal(2024, 3, 1))
  /\ Len(response[1].backend.value) = 4

\* the statistics of a series have been computed
Analysed == entry = "analyze_price_data" /\ pc = "applied"

\* the values of the series that float() accepts
NumericValues ==
  LET kept == SelectSeq(query, LAMBDA it : it.numeric)
  IN [k \in DOMAIN kept |-> kept[k].value]

Sign(x) == IF x > 0 THEN 1 ELSE IF x < 0 THEN -1 ELSE 0

\* the statistics st agree with the values v they are computed from
SoundStatistics(st, v) ==
  /\ Sign(st.percent_change) = Sign(v[Len(v)] - v[1])
  /\ st.volatility >= 0
  /\ st.min * st.mean.den <= st.mean.num
  /\ st.mean.num <= st.max * st.mean.den
  /\ st.min * st.median.den <= st.median.num
  /\ st.median.num <= st.max * st.median.den

\* C12: for every series of 2 or more values whose statistics are
\* computed, the sign of percent_change is the sign of last - first,
\* volatility >= 0, min <= mean <= max and min <= median <= max.
C12_StatisticsSound ==
  (Analysed /\ Len(NumericValues) >= 2)
    => /\ (~response[1].app.raised /\ response[1].app.value # None)
            => SoundStatistics(response[1].app.value[1], NumericValues)
       /\ response[1].backend.stats # None
            => SoundStatistics(response[1].backend.stats[1], NumericValues)

\* C13: statistics come from 2 or more numeric values: with fewer, after
\* the strings are skipped, the result is the marker without statistics
\* (trend "insufficient data" or "invalid data"), never a record.
C13_StatisticsNeedTwoPoints ==
  (Analysed /\ Len(NumericValues) < 2)
    => /\ response[1].backend.stats = None
       /\ response[1].backend.trend \in {"insufficient data", "invalid data"}
       /\ ~response[1].app.raised => response[1].app.value = None

\* process_query is done with a request for oil prices whose series has
\* one point: a window of one day without the oil-price API, or one
\* item in the answer of the API
OnePointDone ==
  /\ InProcessQuery /\ pc = "done"
  /\ analysis[1].intent = "oil_price"
  /\ \/ /\ ~keys.eia_key
        /\ Has(analysis[1].parameters, "start_date")
        /\ Has(analysis[1].parameters, "end_date")
        /\ IsIsoDate(analysis[1].parameters.start_date)
        /\ analysis[1].parameters.start_date
             = analysis[1].parameters.end_date
     \/ env[1].eia = "ok1"

\* process_market_query is done with a request for oil prices and the
\* answer of the API has one item
OnePointMarketDone ==
  /\ InMarketQuery /\ pc = "done"
  /\ analysis[1].intent = "oil_price"
  /\ env[1].eia = "ok1"

\* C14: an oil series of fewer than 2 usable points is answered with the
\* statement of the latest price, without trend and volatility, whether
\* or not the location is a country of the registry; the answer is never
\* an error response.
C14_OnePointIsLatestPrice ==
  /\ OnePointDone
       => /\ response # None
          /\ response[1].text.template = "oil_latest"
  /\ OnePointMarketDone
       => response[1].answer.template \notin {"error", "no_market_data"}

\* a retail price has been computed for a country of the registry
Priced ==
  /\ entry = "_compute_retail_price" /\ pc = "applied"
  /\ InRegistry(query.country)

RECURSIVE BigLeq(_, _)
\* a <= b for numbers given as little-endian limbs
BigLeq(a, b) ==
  IF Len(a) < Len(b) THEN BigLeq(Append(a, 0), b)
  ELSE IF Len(b) < Len(a) THEN BigLeq(a, Append(b, 0))
  ELSE IF a = <<>> THEN TRUE
  ELSE IF a[Len(a)] # b[Len(b)] THEN a[Len(a)] < b[Len(b)]
  ELSE BigLeq(SubSeq(a, 1, Len(a) - 1), SubSeq(b, 1, Len(b) - 1))

\* cents is the price benchmark * price_factor / barrel_to_local_units,
\* times (1 + tax_rate/100), times (1 + vat/100), times rate, rounded to
\* the nearest cent: |cents * d - n| <= d / 2 for the fraction n / d
NearestCent(cents, benchmark, cfg, rate) ==
  LET n == BigMul(BigMul(BigMul(BigMul(BigMul(<<benchmark>>,
                                              cfg.price_factor, 0),
                                       10000 + cfg.tax_rate, 0),
                                10000 + cfg.vat, 0), rate, 0), 2, 0)
      d == BigMul(BigMul(BigMul(BigMul(<<cfg.crude_conversion>>, 100, 0),
                                10000, 0), 10000, 0), 10000, 0)
  IN /\ cents >= 0
     /\ cents = 0 \/ BigLeq(BigMul(d, 2 * cents - 1, 0), n)
     /\ BigLeq(n, BigMul(d, 2 * cents + 1, 0))

\* C16: the retail price is benchmark * price_factor /
\* barrel_to_local_units, times (1 + tax_rate/100), times (1 + vat/100),
\* times the exchange rate only where the path receives one, rounded to 2
\* decimals; benchmark 80.00, the usa profile and the rate 1.0 give 2.37.
C16_RetailFormula ==
  Priced
    => /\ NearestCent(response[1].app[1].price, query.brent,
                      COUNTRY_FUEL_DATA(query.country), RateOne)
       /\ NearestCent(response[1].backend[1], query.brent,
                      COUNTRY_FUEL_DATA(query.country), query.fx)
       /\ (query.brent = 8000 /\ query.country = usa /\ query.fx = RateOne)
            => /\ response[1].app[1].price = 237
               /\ response[1].backend[1] = 237

\* the retail price of 80.00 in Germany at the rate 0.92 has been computed
C16_Witness ==
  /\ Priced
  /\ query = [brent |-> 8000, country |-> germany, fx |-> 9200]
  /\ response[1].backend[1] < response[1].app[1].price

\* fuel_price is done
FuelDone == entry = "fuel_price" /\ pc = "done"

\* C15: a location that is no country code of the registry gives no
\* retail quote and no error: the retail price is left out and the rest
\* of the result is as without the location.
C15_UnknownLocationOmitsRetail ==
  /\ (InProcessQuery /\ pc = "done" /\ analysis[1].intent = "oil_price"
        /\ Has(analysis[1].parameters, "location")
        /\ ~InRegistry(analysis[1].parameters.location))
       => /\ ~Has(fetched[1], "error")
          /\ fetched[1].stats # None
               => ~Has(fetched[1].stats[1], "retail_price")
          /\ response[1].text.template # "error"
  /\ (FuelDone /\ ~InRegistry(Lower(query))
        /\ env[1].eia \notin {"empty", "bad_value"})
       => /\ response[1].answer.template # "http_exception"
          /\ ~Has(response[1].answer, "price")

\* the source of live exchange rates is not configured, or its call fails
FxUnavailable ==
  env # None /\ (~keys.oxr_key \/ env[1].oxr \in Failures)

\* the fixed approximation of the rate USD to the currency of a country
ApproximateRate(country) ==
  IF COUNTRY_FUEL_DATA(country).currency = "EUR" THEN 9200
  ELSE IF COUNTRY_FUEL_DATA(country).currency = "GBP" THEN 7900
  ELSE RateOne

\* C17: when the live source of exchange rates is not configured or
\* fails, the rate of the retail quote is the fixed approximation for the
\* currency of the country: 0.92 for EUR, 0.79 for GBP, else 1.0.
C17_ApproximateRates ==
  /\ (InProcessQuery /\ pc = "done" /\ FxUnavailable
        /\ analysis[1].intent = "oil_price"
        /\ ~Has(fetched[1], "error") /\ fetched[1].stats # None
        /\ Has(fetched[1].stats[1], "retail_price"))
       => fetched[1].stats[1].fx_rate
            = ApproximateRate(analysis[1].parameters.location)
  /\ (InMarketQuery /\ pc = "done" /\ FxUnavailable /\ fetched # None
        /\ Has(fetched[1], "oil_data")
        /\ fetched[1].oil_data.stats # None
        /\ Has(fetched[1].oil_data.stats[1], "retail_price"))
       => fetched[1].oil_data.stats[1].fx_rate
            = ApproximateRate(analysis[1].location)
  /\ (FuelDone /\ FxUnavailable
        /\ response[1].answer.template = "fuel_price")
       => response[1].answer.fx_rate = ApproximateRate(Lower(query))

\* the queries that name the United States
NamesUnitedStates == query \in {Q.united_states, Q.america, Q.us}

\* C18: "United States", "America" and "US" in a query all give the
\* location usa in the analysed parameters.
C18_UnitedStatesAliases ==
  /\ (InProcessQuery /\ NamesUnitedStates /\ analysis # None)
       => /\ Has(analysis[1].parameters, "location")
          /\ analysis[1].parameters.location = usa
  /\ ((entry = "ask_llm" \/ (InMarketQuery /\ ~keys.llm_key))
        /\ NamesUnitedStates /\ analysis # None)
       => /\ Has(analysis[1], "location")
          /\ analysis[1].location = usa

\* the parameters of a question with a range of months are there
Ranged ==
  /\ entry = "analyze_query" /\ pc = "applied"
  /\ "start_month" \in DOMAIN query

\* the last day of month m of year y in the Gregorian calendar
LastDayOfMonth(y, m) ==
  CASE m \in {1, 3, 5, 7, 8, 10, 12} -> 31
    [] m \in {4, 6, 9, 11} -> 30
    [] OTHER -> IF y % 400 = 0 \/ (y % 4 = 0 /\ y % 100 # 0) THEN 29 ELSE 28

\* YYYY-MM-DD of the year y, the month m and the day d
IsoDate(y, m, d) ==
  ZeroPad(y, 4) \o <<"-">> \o ZeroPad(m, 2) \o <<"-">> \o ZeroPad(d, 2)

\* C19: in an explicit date range a month and year as start is day 01 of
\* the month, and as end the last calendar day of the month, leap years
\* included; "May 2024" is 2024-05-01 as start and 2024-05-31 as end.
C19_MonthYearRange ==
  Ranged
    => /\ ~response[1].app.raised
       /\ response[1].app.parameters.start_date
            = IsoDate(query.start_year, query.start_month, 1)
       /\ response[1].app.parameters.end_date
            = IsoDate(query.end_year, query.end_month,
                      LastDayOfMonth(query.end_year, query.end_month))
       /\ response[1].backend.start_date
            = Some(IsoDate(query.start_year, query.start_month, 1))
       /\ response[1].backend.end_date
            = Some(IsoDate(query.end_year, query.end_month,
                           LastDayOfMonth(query.end_year, query.end_month)))
       /\ (query.start_month = 5 /\ query.start_year = 2024)
            => response[1].app.parameters.start_date
                 = <<"2","0","2","4","-","0","5","-","0","1">>
       /\ (query.end_month = 5 /\ query.end_year = 2024)
            => response[1].app.parameters.end_date
                 = <<"2","0","2","4","-","0","5","-","3","1">>

\* a range that ends with February of a leap year has been analysed
C19_Witness ==
  /\ Ranged
  /\ query.end_month = 2 /\ query.end_year = 2024
  /\ response[1].app.parameters.end_date
       = <<"2","0","2","4","-","0","2","-","2","9">>
  /\ response[1].backend.end_date
       = Some(<<"2","0","2","4","-","0","2","-","2","9">>)

\* a date string has been normalized
Normalized == entry = "_normalize_date" /\ pc = "applied"

\* s has the form YYYY-MM-DD
IsoForm(s) ==
  /\ Len(s) = 10
  /\ \A k \in 1..10 : IF k \in {5, 8} THEN s[k] = "-" ELSE s[k] \in Digits

\* C20: _normalize_date returns a string of the form YYYY-MM-DD
\* unchanged, and normalizing twice gives what normalizing once gives for
\* every supported format.
C20_NormalizeIdempotent ==
  Normalized
    => /\ IsoForm(query) => response[1].once = query
       /\ response[1].twice = response[1].once

\* a date M/D/Y has been normalized to another string
C20_Witness ==
  /\ Normalized
  /\ query = <<"5","/","1","/","2","0","2","4">>
  /\ response[1].once = <<"2","0","2","4","-","0","5","-","0","1">>
  /\ response[1].twice = response[1].once

(***************************************************************************)
(* Concurrent requests: several coroutines run process_query on the one   *)
(* DynamicDataModel of the server.  A coroutine gives way at an await     *)
(* only; here it may give way between any two steps, which allows every   *)
(* interleaving of the event loop and more.  pc, query, analysis,         *)
(* fetched, origin, env and response hold the locals of each coroutine;  *)
(* keys is the module-level API_KEYS.                                     *)
(***************************************************************************)
\* the coroutines in flight at once
MaxTasks == 2

Tasks == 1..MaxTasks

\* the fetch step of task t, were query_analysis an attribute of the
\* shared DynamicDataModel that the coroutine of the highest number
\* overwrites
FetchTaskShared(t) ==
  /\ entry = "concurrent"
  /\ pc[t] = "fetch"
  /\ \E u \in {SetMax({v \in Tasks : analysis[v] # None})} :
     \E e \in {x \in RelevantEnvironments(keys, analysis[u][1].intent,
                                          analysis[u][1].parameters) :
                 /\ x.eia \in {"none", "ok3", "http_error"}
                 /\ x.oxr \in {"none", "ok", "http_error"}
                 /\ x.weather \in {"none", "ok"}} :
       \E f \in {fetch_data(analysis[u][1].intent,
                            analysis[u][1].parameters, e)} :
         /\ fetched' = [fetched EXCEPT ![t] = Some(f.data)]
         /\ origin' = [origin EXCEPT ![t] = f.origin]
         /\ env' = [env EXCEPT ![t] = Some(e)]
  /\ pc' = [pc EXCEPT ![t] = "render"]
  /\ UNCHANGED <<keys, entry, query, analysis, llm, calls, response, steps>>

\* the server is up with one query handed to each coroutine
ConcurrentInit ==
  /\ keys \in {[eia_key |-> b, oxr_key |-> b, weather_key |-> b,
                llm_key |-> FALSE] : b \in BOOLEAN}
  /\ entry = "concurrent"
  /\ query \in [Tasks -> {Q.days_ago, Q.reversed, Q.today_germany}]
  /\ pc = [t \in Tasks |-> "analyze"]
  /\ analysis = [t \in Tasks |-> None]
  /\ fetched = [t \in Tasks |-> None]
  /\ origin = [t \in Tasks |-> "none"]
  /\ env = [t \in Tasks |-> None]
  /\ response = [t \in Tasks |-> None]
  /\ llm = "none"
  /\ calls = NoCalls
  /\ steps = <<>>

\* step 1 of process_query in task t
AnalyzeTask(t) ==
  /\ entry = "concurrent"
  /\ pc[t] = "analyze"
  /\ \E a \in {analyze_query(query[t], Today)} :
       /\ analysis' = [analysis EXCEPT ![t] = Some(a)]
       /\ pc' = [pc EXCEPT ![t] = IF a.raised THEN "raised" ELSE "fetch"]
  /\ UNCHANGED <<keys, entry, query, fetched, origin, env, llm, calls,
                 response, steps>>

\* step 2 of process_query in task t: fetch_data on the task's own
\* query_analysis
FetchTask(t) ==
  /\ entry = "concurrent"
  /\ pc[t] = "fetch"
  /\ \E e \in {x \in RelevantEnvironments(keys, analysis[t][1].intent,
                                          analysis[t][1].parameters) :
                 /\ x.eia \in {"none", "ok3", "http_error"}
                 /\ x.oxr \in {"none", "ok", "http_error"}
                 /\ x.weather \in {"none", "ok"}} :
       \E f \in {fetch_data(analysis[t][1].intent,
                            analysis[t][1].parameters, e)} :
         /\ fetched' = [fetched EXCEPT ![t] = Some(f.data)]
         /\ origin' = [origin EXCEPT ![t] = f.origin]
         /\ env' = [env EXCEPT ![t] = Some(e)]
  /\ pc' = [pc EXCEPT ![t] = "render"]
  /\ UNCHANGED <<keys, entry, query, analysis, llm, calls, response, steps>>

\* step 3 of process_query in task t
RenderTask(t) ==
  /\ entry = "concurrent"
  /\ pc[t] = "render"
  /\ \E r \in {generate_response(analysis[t][1], fetched[t][1])} :
       IF r.raised
         THEN /\ pc' = [pc EXCEPT ![t] = "raised"]
              /\ response' = response
         ELSE /\ pc' = [pc EXCEPT ![t] = "done"]
              /\ response' = [response EXCEPT ![t] = Some(r.value)]
  /\ UNCHANGED <<keys, entry, query, analysis, fetched, origin, env, llm,
                 calls, steps>>

ConcurrentNext ==
  \E t \in Tasks : AnalyzeTask(t) \/ FetchTask(t) \/ RenderTask(t)

Concurrent == ConcurrentInit /\ [][ConcurrentNext]_vars

\* what process_query gives for query q when it runs alone in environment e
Alone(q, e) ==
  LET a == analyze_query(q, Today)
      f == fetch_data(a.intent, a.parameters, e)
  IN generate_response(a, f.data).value

\* C21: concurrent executions of process_query are independent: the
\* response of each is the one the query gives when it runs alone in the
\* environment its fetch met (the synthetic noise is part of the
\* environment), and no step changes the configuration they share.
C21_ConcurrentIndependent ==
  /\ entry = "concurrent"
  /\ \A t \in Tasks :
       pc[t] = "done" =>
         /\ response[t] = Some(Alone(query[t], env[t][1]))
         /\ keys.eia_key = env[t][1].eia_key
         /\ keys.oxr_key = env[t][1].oxr_key

\* the first coroutine has run from its analysis to its response while the
\* second, with another query, was waiting between its analysis and its
\* fetch
C21_Witness ==
  /\ entry = "concurrent"
  /\ pc[1] = "done" /\ pc[2] = "fetch"
  /\ query[1] = Q.days_ago /\ query[2] = Q.today_germany
  /\ response[1] # None

\* the intent the classification is to give for query q: the first intent
\* of the table with a pattern in the lowercased query, else oil_price for
\* a location phrase together with a fuel keyword, else unknown
ClaimedIntent(q) ==
  LET hits == {k \in DOMAIN INTENT_PATTERNS :
                 \E j \in DOMAIN INTENT_PATTERNS[k].patterns :
                   Found(INTENT_PATTERNS[k].patterns[j], Lower(q))}
  IN IF hits # {} THEN INTENT_PATTERNS[SetMin(hits)].intent
     ELSE IF /\ Found(Whole(PARAMETER_PATTERNS.location), q)
             /\ \E w \in {<<"f","u","e","l">>, <<"g","a","s">>,
                          <<"p","e","t","r","o","l">>,
                          <<"p","r","i","c","e">>} : Found(Lit(w), Lower(q))
       THEN "oil_price"
     ELSE "unknown"

\* C22: the intent of a query is the first of oil_price, fx_rates and
\* weather whose patterns match the lowercased query, else oil_price when
\* a location phrase and a fuel keyword are present, else unknown, in
\* analyze_query and in the backend's parse_query_fallback alike.
C22_IntentClassification ==
  /\ (InProcessQuery /\ analysis # None)
       => analysis[1].intent = ClaimedIntent(query)
  /\ (InMarketQuery /\ analysis # None /\ ~keys.llm_key)
       => analysis[1].intent = ClaimedIntent(query)

\* analyze_query has returned the parameters of a question made of
\* temporal forms
Extracted ==
  /\ entry = "analyze_query" /\ pc = "applied"
  /\ "forms" \in DOMAIN query

\* the parameters hold this window and no single date
IsWindow(p, start, end) ==
  /\ Has(p, "start_date") /\ p.start_date = start
  /\ Has(p, "end_date") /\ p.end_date = end
  /\ ~Has(p, "date")

\* C23: of the temporal forms of a query only the one of highest
\* precedence (date range, single date, N days ago, last or past N units)
\* determines the date parameters, wherever it stands in the query; the
\* parameters hold a date or a window, never both, and a query without
\* any form gets the window of the last 30 days.
C23_TemporalPrecedence ==
  Extracted
    => LET p == response[1].app.parameters
       IN /\ ~response[1].app.raised
          /\ CASE "date_range" \in query.forms ->
                     IsWindow(p, IsoDate(2024, 5, 1), IsoDate(2024, 5, 10))
                [] "single_date" \in query.forms ->
                     /\ Has(p, "date") /\ p.date = IsoDate(2024, 6, 1)
                     /\ ~Has(p, "start_date") /\ ~Has(p, "end_date")
                [] "days_ago" \in query.forms ->
                     IsWindow(p, isoformat(Today - 5), isoformat(Today))
                [] "timeframe" \in query.forms ->
                     IsWindow(p, isoformat(Today - 14), isoformat(Today))
                [] OTHER ->
                     IsWindow(p, isoformat(Today - 30), isoformat(Today))

\* a question with all four forms, the date range last, has the window of
\* the date range
C23_Witness ==
  /\ Extracted
  /\ query.forms = {"date_range", "single_date", "days_ago", "timeframe"}
  /\ SubSeq(query.text, 4, 8) = <<" ","l","a","s","t">>
  /\ response[1].app.parameters.start_date = IsoDate(2024, 5, 1)

\* q has one of "in", "at", "for", "of" followed by a capitalized word
PrepositionalPhrase(q) ==
  Found(Cat(<<Alt(<<Lit(<<"i","n">>), Lit(<<"a","t">>),
                    Lit(<<"f","o","r">>), Lit(<<"o","f">>)>>),
              Sp1, Cls(UpperCh), Plus(Cls(LowerCh))>>), q)

\* the countries with a code or an alias that is a word of its own in q
CountriesNamed(q) ==
  {country_names[k].country : k \in
     {k \in DOMAIN country_names :
        \E j \in DOMAIN country_names[k].aliases :
          Found(Cat(<<WordB, Lit(country_names[k].aliases[j]), WordB>>),
                Lower(q))}}

\* C24: the location of a query is looked for whatever temporal form it
\* has: without a phrase of "in", "at", "for" or "of" and capitalized
\* words, the location is the country whose code or alias is a word of
\* its own somewhere in the query, and there is no location if there is
\* no such word.
C24_LocationExtraction ==
  (InProcessQuery /\ analysis # None /\ ~analysis[1].raised
     /\ ~PrepositionalPhrase(query))
    => LET p == analysis[1].parameters
       IN IF CountriesNamed(query) = {}
            THEN ~Has(p, "location")
            ELSE Has(p, "location") /\ p.location \in CountriesNamed(query)

\* the trend bucket of a percent change reported in hundredths of a
\* percent, with strict comparisons
Bucket(percent_change) ==
  CASE percent_change > 500 -> "strongly upward"
    [] percent_change > 100 /\ percent_change <= 500 -> "moderately upward"
    [] percent_change < -500 -> "strongly downward"
    [] percent_change < -100 /\ percent_change >= -500 -> "moderately downward"
    [] OTHER -> "stable"

\* C25: the trend is the bucket of the reported percent change (two
\* decimals): strongly upward above 5, moderately upward above 1,
\* strongly downward below -5, moderately downward below -1, else stable;
\* a reported change of exactly 5, 1, -1 or -5 is in the lesser bucket.
C25_TrendBuckets ==
  (Analysed /\ response[1].backend.stats # None)
    => LET trend == response[1].backend.trend
       IN (IF trend = "relatively stable" THEN "stable" ELSE trend)
            = Bucket(response[1].backend.stats[1].percent_change)

\* the fetch step of process_query is over
FetchOver == InProcessQuery /\ pc \in {"render", "done"}

\* the fetch step of process_market_query is over
MarketFetchOver == InMarketQuery /\ pc \in {"render", "done"} /\ env # None

\* C26: a sub-fetch whose credential is not configured returns synthetic
\* data at once, and no call goes out to the service: the oil fetch of the
\* app and of the backend without the EIA key, the rate fetch of the app
\* without the exchange-rate key.
C26_NoCredentialNoCall ==
  /\ (FetchOver /\ analysis[1].intent = "oil_price" /\ ~keys.eia_key)
       => /\ calls.eia = 0
          /\ origin = "synthetic"
          /\ ~Has(fetched[1], "error")
          /\ fetched[1].source = "Mock data"
  /\ (FetchOver /\ analysis[1].intent = "fx_rates" /\ ~keys.oxr_key)
       => /\ calls.oxr = 0
          /\ origin = "synthetic"
          /\ fetched[1].source = "Mock data"
  /\ (MarketFetchOver /\ ~keys.eia_key) => calls.eia = 0
  /\ (MarketFetchOver /\ ~keys.oxr_key) => calls.oxr = 0

\* rates are the synthetic rates of the requested symbols: 1.0 + 0.1 times
\* the position in the list, counted from 0, and nothing for the base
SyntheticRates(rates, symbols, base) ==
  /\ DOMAIN rates = {symbols[i] : i \in DOMAIN symbols} \ {base}
  /\ \A i \in DOMAIN symbols :
       symbols[i] # base => rates[symbols[i]] = RateOne + (i - 1) * 1000

\* C27: synthetic exchange rates give every requested symbol other than
\* the base the rate 1.0 + 0.1 * (its position in the requested list) and
\* have no entry for the base currency, in process_query and in
\* process_market_query.
C27_SyntheticFxRates ==
  /\ (FetchOver /\ analysis[1].intent = "fx_rates" /\ ~keys.oxr_key)
       => SyntheticRates(fetched[1].rates,
                         <<"EUR", "USD", "GBP", "JPY", "CAD">>,
                         fetched[1].base)
  /\ (MarketFetchOver /\ analysis[1].intent = "fx_rates" /\ ~keys.oxr_key
        /\ fetched # None)
       => SyntheticRates(fetched[1].fx_data.rates,
                         <<"EUR", "USD", "GBP", "JPY", "CAD">>,
                         fetched[1].fx_data.base)

\* the result of the oil fetch of process_query has a retail quote and
\* the exchange rate it reports for it
Quoted ==
  /\ FetchOver
  /\ Has(fetched[1], "stats")
  /\ fetched[1].stats # None
  /\ Has(fetched[1].stats[1], "retail_price")
  /\ Has(fetched[1].stats[1], "fx_rate")

\* C28: a result with a retail quote and an exchange rate r quotes the
\* price with duty and VAT in USD times r: the rate that is reported is
\* the rate that was applied.
C28_QuoteAppliesReportedRate ==
  Quoted
    => LET stats == fetched[1].stats[1]
           data == fetched[1].data
       IN stats.fx_rate # NullRate
            => NearestCent(stats.retail_price.price, data[Len(data)].value,
                           COUNTRY_FUEL_DATA(analysis[1].parameters.location),
                           stats.fx_rate)

\* the parameters of a question with a range between two dates, of
\* analyze_query and of parse_query_fallback, are there
RangeParsed ==
  /\ entry = "analyze_query" /\ pc = "applied"
  /\ "from" \in DOMAIN query

\* C29: analyze_query and parse_query_fallback give the same start_date
\* and end_date for a range "from X to Y" or "between X and Y", whatever
\* the formats of X and Y (ISO, M/D/Y, month and year).
C29_ParsersAgreeOnRanges ==
  RangeParsed
    => /\ ~response[1].app.raised
       /\ response[1].backend.start_date
            = Some(response[1].app.parameters.start_date)
       /\ response[1].backend.end_date
            = Some(response[1].app.parameters.end_date)

\* the oil fetch of process_query is over for a query that names one date
SingleDateFetched ==
  /\ FetchOver
  /\ analysis[1].intent = "oil_price"
  /\ Has(analysis[1].parameters, "date")
  /\ IsIsoDate(analysis[1].parameters.date)

\* C30: for an oil query that names a single date X the window of the oil
\* fetch comes from the date parameter: the fetch gives a series, and the
\* series has a point dated X.
C30_SingleDateCovered ==
  SingleDateFetched
    => /\ Has(fetched[1], "data")
       /\ \E k \in DOMAIN fetched[1].data :
            fetched[1].data[k].date = analysis[1].parameters.date

=============================================================================
